---- MODULE Spec2Model ----
(***************************************************************************)
(* Violation lifecycle and WhatsApp notification workflow of the school    *)
(* violation tracker: the students, users and violations tables and the    *)
(* handlers that read and write them.                                      *)
(***************************************************************************)
EXTENDS Integers, Sequences, FiniteSets, Bags, TLC

VARIABLES students, users, violations, studentSeq, userSeq, violationSeq,
          now, last, ops,
          files, uploadDir, issued, procs

\* the photo directory (files, uploadDir), the file names handed out so far
\* (issued) and the handler calls in flight (procs)
photoVars == <<files, uploadDir, issued>>
others == <<photoVars, procs>>

vars == <<students, users, violations, studentSeq, userSeq, violationSeq,
          now, last, ops, others>>

\* ------------------------------------------------------------------ bounds
MaxStudents == 2
MaxUsers == 1
MaxViolations == 2
MaxTime == 1
MaxOps == 5
MaxInFlight == 2
MaxPhotos == 2
MaxPhotoOps == 3
MaxConcOps == 6

\* ------------------------------------------------- nullable column values
Null == <<>>
Some(x) == <<x>>

\* ------------------------------------------------------------ input sets
StudentInputs ==
  { [nisn |-> "1234567890", name |-> "Ahmad Budi", class |-> "12 IPA 1",
     parent_name |-> "Pak Ahmad", parent_whatsapp |-> "+6281234567890"],
    [nisn |-> "0987654321", name |-> "Jane Smith", class |-> "10B",
     parent_name |-> "John Smith", parent_whatsapp |-> "+0987654321"] }

UserInputs ==
  { [username |-> "testteacher", password |-> "password123", role |-> "teacher"] }

\* ids a caller can name: every id the serial can hand out, and one beyond
StudentIds == 1..(MaxStudents + 1)
UserIds == 1..(MaxUsers + 1)
ViolationIds == 1..(MaxViolations + 1)

CreateViolationInputs ==
  { [student_id |-> s, violation_type |-> "Terlambat",
     location |-> "Gerbang Sekolah",
     description |-> Some("Terlambat 30 menit tanpa keterangan"),
     photo_url |-> Some("https://example.com/photo.jpg"),
     violation_time |-> 1, reported_by |-> u] : s \in StudentIds, u \in UserIds }
  \cup
  { [student_id |-> s, violation_type |-> "Bolos", location |-> "Kantin",
     description |-> Null, photo_url |-> Null,
     violation_time |-> 2, reported_by |-> u] : s \in StudentIds, u \in UserIds }

\* the optional fields of UpdateViolationInput a call supplies (id is added)
UpdateViolationPatches ==
  { [whatsapp_sent |-> TRUE],
    [whatsapp_sent |-> FALSE],
    [violation_type |-> "Updated violation type", location |-> "Updated location",
     description |-> Some("Updated description")],
    [photo_url |-> Null, violation_time |-> 3] }
  \cup { [student_id |-> s] : s \in StudentIds }

UpdateViolationInputs ==
  { [id |-> i] @@ p : i \in ViolationIds, p \in UpdateViolationPatches }

MessageIds == {"first_message"}
RandomSuffixes == {"k3j9x2q1z"}

SendWhatsAppInputs ==
  { [violation_id |-> i, phone_number |-> "+6281234567890",
     message |-> "Test WhatsApp message"] : i \in ViolationIds }

GetViolationsInputs ==
  { <<>> } \cup { [student_id |-> s] : s \in StudentIds }

\* --------------------------------------------------------- call outcomes
Returned(v) == [threw |-> FALSE, value |-> v]
Threw(e) == [threw |-> TRUE, error |-> e]
Void == "void"

\* ------------------------------------------------------------------ state
\* The rows of users and students carry the columns the handlers read; their
\* created_at and updated_at columns are written by defaultNow() and read by
\* none of the handlers below.

\* the tables, their serials, the photo directory and the file names handed
\* out so far, as one value
Store ==
  [students |-> students, users |-> users, violations |-> violations,
   studentSeq |-> studentSeq, userSeq |-> userSeq, violationSeq |-> violationSeq,
   files |-> files, uploadDir |-> uploadDir, issued |-> issued]

Init ==
  /\ files = <<>>
  /\ uploadDir = FALSE
  /\ issued = {}
  /\ procs = <<>>
  /\ students = <<>>
  /\ users = <<>>
  /\ violations = <<>>
  /\ studentSeq = 1
  /\ userSeq = 1
  /\ violationSeq = 1
  /\ now = 0
  /\ last = [op |-> "none", arg |-> <<>>, at |-> 0, before |-> Store,
             ret |-> Returned(Void)]
  /\ ops = 0

\* the wall clock read by new Date() / defaultNow() moves forward
Tick ==
  /\ now < MaxTime
  /\ now' = now + 1
  /\ UNCHANGED <<students, users, violations, studentSeq, userSeq,
                 violationSeq, last, ops, others>>

\* one handler call: its argument, the clock and the store when the call
\* starts, and its outcome
Call(op, arg, ret) ==
  /\ ops < MaxOps
  /\ ops' = ops + 1
  /\ last' = [op |-> op, arg |-> arg, at |-> now, before |-> Store, ret |-> ret]

\* ------------------------------------------------------------------ users
\* Bun.password.hash: a salted one-way digest, never the clear text
Salts == {"c2FsdA"}
PasswordHash(password, salt) == <<"$argon2id$", salt, password>>

\* the User value the handlers hand out
PublicUser(user) == [user EXCEPT !.password = ""]

createUser(input) ==
  LET existingUsers == { i \in DOMAIN users : users[i].username = input.username }
  IN IF existingUsers # {}
     THEN /\ Call("createUser", input, Threw(<<"Username already exists">>))
          /\ UNCHANGED <<students, users, violations, studentSeq, userSeq,
                         violationSeq, now, others>>
     ELSE /\ userSeq <= MaxUsers
          /\ \E salt \in Salts :
               LET user == [id |-> userSeq, username |-> input.username,
                            password |-> PasswordHash(input.password, salt),
                            role |-> input.role]
               IN /\ users' = users @@ (userSeq :> user)
                  /\ Call("createUser", input, Returned(PublicUser(user)))
          /\ userSeq' = userSeq + 1
          /\ UNCHANGED <<students, violations, studentSeq, violationSeq, now, others>>

\* Bun.password.verify(password, hash)
PasswordVerify(password, hash) == hash[3] = password

LoginInputs ==
  { [username |-> u, password |-> p] :
      u \in { input.username : input \in UserInputs } \cup {"nobody"},
      p \in { input.password : input \in UserInputs } \cup {"wrongpassword"} }

\* faulty variant: the row is returned as it is stored
login_ReturnRow(input) ==
  LET found == { i \in DOMAIN users : users[i].username = input.username }
      user == users[CHOOSE i \in found : TRUE]
  IN /\ Call("login", input,
             IF found = {} THEN Threw(<<"Invalid username or password">>)
             ELSE IF ~PasswordVerify(input.password, user.password)
             THEN Threw(<<"Invalid username or password">>)
             ELSE Returned(user))
     /\ UNCHANGED <<students, users, violations, studentSeq, userSeq,
                    violationSeq, now, others>>

login(input) ==
  LET found == { i \in DOMAIN users : users[i].username = input.username }
      user == users[CHOOSE i \in found : TRUE]
  IN /\ Call("login", input,
             IF found = {} THEN Threw(<<"Invalid username or password">>)
             ELSE IF ~PasswordVerify(input.password, user.password)
             THEN Threw(<<"Invalid username or password">>)
             ELSE Returned(PublicUser(user)))
     /\ UNCHANGED <<students, users, violations, studentSeq, userSeq,
                    violationSeq, now, others>>

getCurrentUser(userId) ==
  /\ Call("getCurrentUser", userId,
          Returned(IF userId \in DOMAIN users THEN Some(PublicUser(users[userId]))
                   ELSE Null))
  /\ UNCHANGED <<students, users, violations, studentSeq, userSeq,
                 violationSeq, now, others>>

\* --------------------------------------------------------------- students
createStudent(input) ==
  /\ studentSeq <= MaxStudents
  /\ studentSeq' = studentSeq + 1   \* the serial is drawn before the insert is checked
  /\ IF \E i \in DOMAIN students : students[i].nisn = input.nisn
     THEN /\ Call("createStudent", input,
                  Threw(<<"duplicate key value violates unique constraint",
                          "students_nisn_unique">>))
          /\ UNCHANGED students
     ELSE LET student == [id |-> studentSeq, nisn |-> input.nisn,
                          name |-> input.name, class |-> input.class,
                          parent_name |-> input.parent_name,
                          parent_whatsapp |-> input.parent_whatsapp]
          IN /\ students' = students @@ (studentSeq :> student)
             /\ Call("createStudent", input, Returned(student))
  /\ UNCHANGED <<users, violations, userSeq, violationSeq, now, others>>

\* ------------------------------------------------------------- violations
\* select().from(violationsTable).where(eq(id, ...)).limit(1)
SelectViolation(id) ==
  IF id \in DOMAIN violations THEN <<violations[id]>> ELSE <<>>

SelectStudent(id) ==
  IF id \in DOMAIN students THEN <<students[id]>> ELSE <<>>

SelectUser(id) ==
  IF id \in DOMAIN users THEN <<users[id]>> ELSE <<>>

\* faulty variant: the row is inserted already stamped as sent
NewViolation_StampedAtInsert(input, id, t) ==
  [id |-> id,
   student_id |-> input.student_id,
   violation_type |-> input.violation_type,
   location |-> input.location,
   description |-> input.description,
   photo_url |-> input.photo_url,
   violation_time |-> input.violation_time,
   reported_by |-> input.reported_by,
   whatsapp_sent |-> FALSE,
   whatsapp_sent_at |-> Some(t),
   created_at |-> t,
   updated_at |-> t]

\* the row inserted by createViolation; id, created_at and updated_at are
\* the table's serial and defaultNow() columns
NewViolation(input, id, t) ==
  [id |-> id,
   student_id |-> input.student_id,
   violation_type |-> input.violation_type,
   location |-> input.location,
   description |-> input.description,
   photo_url |-> input.photo_url,
   violation_time |-> input.violation_time,
   reported_by |-> input.reported_by,
   whatsapp_sent |-> FALSE,
   whatsapp_sent_at |-> Null,
   created_at |-> t,
   updated_at |-> t]

\* faulty variant: the reporter is not looked up before the insert
createViolation_NoReporterCheck(input) ==
  IF Len(SelectStudent(input.student_id)) = 0
  THEN /\ Call("createViolation", input,
               Threw(<<"Student with ID ", input.student_id, " not found">>))
       /\ UNCHANGED <<students, users, violations, studentSeq, userSeq,
                      violationSeq, now, others>>
  ELSE /\ violationSeq <= MaxViolations
       /\ LET row == NewViolation(input, violationSeq, now)
          IN /\ violations' = violations @@ (violationSeq :> row)
             /\ Call("createViolation", input, Returned(row))
       /\ violationSeq' = violationSeq + 1
       /\ UNCHANGED <<students, users, studentSeq, userSeq, now, others>>

createViolation(input) ==
  IF Len(SelectStudent(input.student_id)) = 0
  THEN /\ Call("createViolation", input,
               Threw(<<"Student with ID ", input.student_id, " not found">>))
       /\ UNCHANGED <<students, users, violations, studentSeq, userSeq,
                      violationSeq, now, others>>
  ELSE IF Len(SelectUser(input.reported_by)) = 0
  THEN /\ Call("createViolation", input,
               Threw(<<"User with ID ", input.reported_by, " not found">>))
       /\ UNCHANGED <<students, users, violations, studentSeq, userSeq,
                      violationSeq, now, others>>
  ELSE /\ violationSeq <= MaxViolations
       /\ LET row == NewViolation(input, violationSeq, now)
          IN /\ violations' = violations @@ (violationSeq :> row)
             /\ Call("createViolation", input, Returned(row))
       /\ violationSeq' = violationSeq + 1
       /\ UNCHANGED <<students, users, studentSeq, userSeq, now, others>>

Supplied(input, field) == field \in DOMAIN input

\* faulty variant: a nullable column the input does not supply is written as null
updateData_AbsentAsNull(input, existing, t) ==
  LET whatsappSentAt ==
        IF Supplied(input, "whatsapp_sent") /\ input.whatsapp_sent
           /\ ~existing.whatsapp_sent
        THEN [whatsapp_sent_at |-> Some(t)]
        ELSE <<>>
      supplied == [f \in DOMAIN input \ {"id"} |-> input[f]]
  IN [updated_at |-> t] @@ supplied @@ whatsappSentAt
       @@ [description |-> Null, photo_url |-> Null]

\* faulty variant: whatsapp_sent is written without its timestamp
updateData_NoSentAt(input, existing, t) ==
  LET supplied == [f \in DOMAIN input \ {"id"} |-> input[f]]
  IN [updated_at |-> t] @@ supplied

\* faulty variant: the timestamp is set on every whatsapp_sent = true
updateData_AlwaysRestamp(input, existing, t) ==
  LET whatsappSentAt ==
        IF Supplied(input, "whatsapp_sent") /\ input.whatsapp_sent
        THEN [whatsapp_sent_at |-> Some(t)]
        ELSE <<>>
      supplied == [f \in DOMAIN input \ {"id"} |-> input[f]]
  IN [updated_at |-> t] @@ supplied @@ whatsappSentAt

\* faulty variant: whatsapp_sent = false clears the timestamp
updateData_ClearStamp(input, existing, t) ==
  LET whatsappSentAt ==
        IF Supplied(input, "whatsapp_sent") /\ input.whatsapp_sent
           /\ ~existing.whatsapp_sent
        THEN [whatsapp_sent_at |-> Some(t)]
        ELSE IF Supplied(input, "whatsapp_sent") /\ ~input.whatsapp_sent
        THEN [whatsapp_sent_at |-> Null]
        ELSE <<>>
      supplied == [f \in DOMAIN input \ {"id"} |-> input[f]]
  IN [updated_at |-> t] @@ supplied @@ whatsappSentAt

\* the update object built field by field from the input
updateData(input, existing, t) ==
  LET whatsappSentAt ==
        IF Supplied(input, "whatsapp_sent") /\ input.whatsapp_sent
           /\ ~existing.whatsapp_sent
        THEN [whatsapp_sent_at |-> Some(t)]
        ELSE <<>>
      supplied == [f \in DOMAIN input \ {"id"} |-> input[f]]
  IN [updated_at |-> t] @@ supplied @@ whatsappSentAt

\* db.update(...).set(data).where(eq(id, ...)): the row with data's columns replaced
SetColumns(row, data) == [c \in DOMAIN row |-> IF c \in DOMAIN data THEN data[c] ELSE row[c]]

\* faulty variant: the student_id of the input is written without being looked up
updateViolation_NoStudentCheck(input) ==
  LET existing == SelectViolation(input.id)
  IN IF Len(existing) = 0
     THEN /\ Call("updateViolation", input,
                  Threw(<<"Violation with ID ", input.id, " not found">>))
          /\ UNCHANGED <<students, users, violations, studentSeq, userSeq,
                         violationSeq, now, others>>
     ELSE LET row == SetColumns(existing[1], updateData(input, existing[1], now))
          IN /\ violations' = [violations EXCEPT ![input.id] = row]
             /\ Call("updateViolation", input, Returned(row))
             /\ UNCHANGED <<students, users, studentSeq, userSeq,
                            violationSeq, now, others>>

updateViolation(input) ==
  LET existing == SelectViolation(input.id)
  IN IF Len(existing) = 0
     THEN /\ Call("updateViolation", input,
                  Threw(<<"Violation with ID ", input.id, " not found">>))
          /\ UNCHANGED <<students, users, violations, studentSeq, userSeq,
                         violationSeq, now, others>>
     ELSE IF Supplied(input, "student_id")
             /\ Len(SelectStudent(input.student_id)) = 0
     THEN /\ Call("updateViolation", input,
                  Threw(<<"Student with ID ", input.student_id, " not found">>))
          /\ UNCHANGED <<students, users, violations, studentSeq, userSeq,
                         violationSeq, now, others>>
     ELSE LET row == SetColumns(existing[1], updateData(input, existing[1], now))
          IN /\ violations' = [violations EXCEPT ![input.id] = row]
             /\ Call("updateViolation", input, Returned(row))
             /\ UNCHANGED <<students, users, studentSeq, userSeq,
                            violationSeq, now, others>>

\* rows in violation_time-descending order; the store settles ties as it likes
RECURSIVE Orderings(_)
Orderings(S) ==
  IF S = {} THEN {<<>>}
  ELSE UNION { { <<x>> \o p : p \in Orderings(S \ {x}) } : x \in S }

\* faulty variant: newest row first, by id
OrderByViolationTimeDesc_ByIdDesc(rows) ==
  { s \in Orderings(rows) :
      \A i \in 1..(Len(s) - 1) : s[i].id >= s[i + 1].id }

OrderByViolationTimeDesc(rows) ==
  { s \in Orderings(rows) :
      \A i \in 1..(Len(s) - 1) : s[i].violation_time >= s[i + 1].violation_time }

DefaultLimit == 1000
DefaultOffset == 0

Min(a, b) == IF a < b THEN a ELSE b

LimitOffset(s, limit, offset) ==
  SubSeq(s, offset + 1, Min(Len(s), offset + limit))

\* every value getViolations can return in the current state
getViolationsResults(input) ==
  LET rows == IF Supplied(input, "student_id")
              THEN { violations[i] : i \in { j \in DOMAIN violations :
                                     violations[j].student_id = input.student_id } }
              ELSE { violations[i] : i \in DOMAIN violations }
      limit == IF Supplied(input, "limit") THEN input.limit ELSE DefaultLimit
      offset == IF Supplied(input, "offset") THEN input.offset ELSE DefaultOffset
  IN { Returned(LimitOffset(s, limit, offset)) : s \in OrderByViolationTimeDesc(rows) }

getViolations(input) ==
  /\ \E ret \in getViolationsResults(input) : Call("getViolations", input, ret)
  /\ UNCHANGED <<students, users, violations, studentSeq, userSeq,
                 violationSeq, now, others>>

\* faulty variant: the student is not looked up before the violations are read
getViolationsByStudentResults_NoStudentCheck(studentId) ==
  { Returned(s) : s \in OrderByViolationTimeDesc(
                  { violations[i] : i \in { j \in DOMAIN violations :
                                    violations[j].student_id = studentId } }) }

\* every outcome getViolationsByStudent can have in the current state
getViolationsByStudentResults(studentId) ==
  IF Len(SelectStudent(studentId)) = 0
  THEN { Threw(<<"Student with ID ", studentId, " not found">>) }
  ELSE { Returned(s) : s \in OrderByViolationTimeDesc(
                       { violations[i] : i \in { j \in DOMAIN violations :
                                         violations[j].student_id = studentId } }) }

getViolationsByStudent(studentId) ==
  /\ \E ret \in getViolationsByStudentResults(studentId) :
       Call("getViolationsByStudent", studentId, ret)
  /\ UNCHANGED <<students, users, violations, studentSeq, userSeq,
                 violationSeq, now, others>>

\* ---------------------------------------------------------------- whatsapp
\* faulty variant: the timestamp is written but not the flag
MarkSentRows_StampOnly(rows, violationId, t) ==
  [i \in DOMAIN rows |->
     IF i = violationId
     THEN SetColumns(rows[i], [whatsapp_sent_at |-> Some(t)])
     ELSE rows[i]]

\* faulty variant: a violation that is already sent keeps its first timestamp
MarkSentRows_KeepFirstStamp(rows, violationId, t) ==
  [i \in DOMAIN rows |->
     IF i = violationId /\ ~rows[i].whatsapp_sent
     THEN SetColumns(rows[i], [whatsapp_sent |-> TRUE, whatsapp_sent_at |-> Some(t)])
     ELSE rows[i]]

\* faulty variant: an id that matches no row gets a row of its own
MarkSentRows_Upsert(rows, violationId, t) ==
  [i \in DOMAIN rows \cup {violationId} |->
     IF i = violationId
     THEN [whatsapp_sent |-> TRUE, whatsapp_sent_at |-> Some(t)]
     ELSE rows[i]]

\* the rows after markWhatsAppSent's UPDATE ... WHERE id = violationId
MarkSentRows(rows, violationId, t) ==
  [i \in DOMAIN rows |->
     IF i = violationId
     THEN SetColumns(rows[i], [whatsapp_sent |-> TRUE, whatsapp_sent_at |-> Some(t)])
     ELSE rows[i]]

markWhatsAppSent(violationId, messageId) ==
  /\ violations' = MarkSentRows(violations, violationId, now)
  /\ Call("markWhatsAppSent", [violationId |-> violationId, messageId |-> messageId],
          Returned(Void))
  /\ UNCHANGED <<students, users, studentSeq, userSeq, violationSeq, now, others>>

\* `wa_${Date.now()}_${Math.random().toString(36).substr(2, 9)}`
MessageId(t, suffix) == <<"wa_", t, "_", suffix>>

\* faulty variant: the violation is not looked up before the message is sent
sendWhatsAppMessage_NoLookup(input) ==
  /\ \E suffix \in RandomSuffixes :
       Call("sendWhatsAppMessage", input,
            Returned([success |-> TRUE, messageId |-> MessageId(now, suffix)]))
  /\ violations' = MarkSentRows(violations, input.violation_id, now)
  /\ UNCHANGED <<students, users, studentSeq, userSeq, violationSeq, now, others>>

sendWhatsAppMessage(input) ==
  LET violation == SelectViolation(input.violation_id)
  IN
  IF Len(violation) = 0
  THEN /\ Call("sendWhatsAppMessage", input,
               Returned([success |-> FALSE, error |-> "Violation not found"]))
       /\ UNCHANGED <<students, users, violations, studentSeq, userSeq,
                      violationSeq, now, others>>
  ELSE /\ \E suffix \in RandomSuffixes :
            Call("sendWhatsAppMessage", input,
                 Returned([success |-> TRUE, messageId |-> MessageId(now, suffix)]))
       /\ violations' = MarkSentRows(violations, input.violation_id, now)
       /\ UNCHANGED <<students, users, studentSeq, userSeq, violationSeq, now, others>>

\* the statements of sendWhatsAppMessage that go to the store
SendStatements == {"select", "update"}

\* faulty variant: the error of the store is thrown on to the caller
sendWhatsAppMessageFailing_Rethrow(input, statement) ==
  LET violation == SelectViolation(input.violation_id)
  IN /\ Call("sendWhatsAppMessage", input,
             IF statement = "update" /\ Len(violation) = 0
             THEN Returned([success |-> FALSE, error |-> "Violation not found"])
             ELSE Threw(<<"Failed query: ", statement>>))
     /\ UNCHANGED <<students, users, violations, studentSeq, userSeq,
                    violationSeq, now, others>>

\* sendWhatsAppMessage when the store rejects one of its statements: the
\* rejected statement changes no row, and the catch turns the error into the
\* returned value
sendWhatsAppMessageFailing(input, statement) ==
  LET violation == SelectViolation(input.violation_id)
  IN /\ Call("sendWhatsAppMessage", input,
             IF statement = "update" /\ Len(violation) = 0
             THEN Returned([success |-> FALSE, error |-> "Violation not found"])
             ELSE Returned([success |-> FALSE,
                            error |-> "Failed to send WhatsApp message"]))
     /\ UNCHANGED <<students, users, violations, studentSeq, userSeq,
                    violationSeq, now, others>>

\* -------------------------------------------------------------------- spec
getViolationByIdResult(id) ==
  LET results == SelectViolation(id)
  IN Returned(IF Len(results) > 0 THEN Some(results[1]) ELSE Null)

getViolationById(id) ==
     /\ Call("getViolationById", id, getViolationByIdResult(id))
     /\ UNCHANGED <<students, users, violations, studentSeq, userSeq,
                    violationSeq, now, others>>

\* DELETE FROM t WHERE id = ...
DeleteRow(table, id) == [i \in DOMAIN table \ {id} |-> table[i]]

\* faulty variant: the DELETE runs without the lookup before it
deleteViolation_NoLookup(id) ==
  /\ violations' = DeleteRow(violations, id)
  /\ Call("deleteViolation", id, Returned(Void))
  /\ UNCHANGED <<students, users, studentSeq, userSeq, violationSeq, now, others>>

deleteViolation(id) ==
  LET existing == SelectViolation(id)
  IN IF Len(existing) = 0
     THEN /\ Call("deleteViolation", id,
                  Threw(<<"Violation with ID ", id, " not found">>))
          /\ UNCHANGED <<students, users, violations, studentSeq, userSeq,
                         violationSeq, now, others>>
     ELSE /\ violations' = DeleteRow(violations, id)
          /\ Call("deleteViolation", id, Returned(Void))
          /\ UNCHANGED <<students, users, studentSeq, userSeq, violationSeq,
                         now, others>>

\* SELECT count(*) FROM violations WHERE student_id = ...
CountViolationsOf(id) ==
  Cardinality({ v \in DOMAIN violations : violations[v].student_id = id })

\* faulty variant: the student is deleted without counting its violations
deleteStudent_NoCount(id) ==
  IF id \notin DOMAIN students
  THEN /\ Call("deleteStudent", id, Threw(<<"Student not found">>))
       /\ UNCHANGED <<students, users, violations, studentSeq, userSeq,
                      violationSeq, now, others>>
  ELSE /\ students' = DeleteRow(students, id)
       /\ Call("deleteStudent", id, Returned(Void))
       /\ UNCHANGED <<users, violations, studentSeq, userSeq, violationSeq,
                      now, others>>

deleteStudent(id) ==
  IF CountViolationsOf(id) > 0
  THEN /\ Call("deleteStudent", id,
               Threw(<<"Cannot delete student with existing violations">>))
       /\ UNCHANGED <<students, users, violations, studentSeq, userSeq,
                      violationSeq, now, others>>
  ELSE IF id \notin DOMAIN students
  THEN /\ Call("deleteStudent", id, Threw(<<"Student not found">>))
       /\ UNCHANGED <<students, users, violations, studentSeq, userSeq,
                      violationSeq, now, others>>
  ELSE /\ students' = DeleteRow(students, id)
       /\ Call("deleteStudent", id, Returned(Void))
       /\ UNCHANGED <<users, violations, studentSeq, userSeq, violationSeq,
                      now, others>>

\* violations INNER JOIN students ON student_id = students.id WHERE violations.id = ...
JoinViolationStudent(violationId) ==
  IF /\ violationId \in DOMAIN violations
     /\ violations[violationId].student_id \in DOMAIN students
  THEN << [violations |-> violations[violationId],
           students |-> students[violations[violationId].student_id]] >>
  ELSE <<>>

\* Intl.DateTimeFormat('id-ID', ...) of a timestamp: the long date and the
\* two-digit hour and minute, each a text determined by the timestamp
FormatDate(t) == <<"weekday, day month year", t>>
FormatTime(t) == <<"hour.minute", t>>

\* JavaScript truthiness of a nullable text column
Truthy(column) == column # Null /\ column[1] # ""

\* faulty variant: the description line is written for every non-null description
DescriptionLines_NonNull(violation) ==
  IF violation.description # Null
  THEN << <<"Keterangan: ", violation.description[1]>> >>
  ELSE <<>>

DescriptionLines(violation) ==
  IF Truthy(violation.description)
  THEN << <<"Keterangan: ", violation.description[1]>> >>
  ELSE <<>>

PhotoLines(violation) ==
  IF Truthy(violation.photo_url)
  THEN << <<"">>, <<"Bukti foto: ", violation.photo_url[1]>> >>
  ELSE <<>>

\* the message, line by line; a line is the template's text followed by the
\* value interpolated into it
ComposeMessage(violation, student) ==
  << <<"Assalamu'alaikum Bapak/Ibu,">>,
     <<"">>,
     <<"Kami dari pihak sekolah ingin memberitahukan bahwa anak Bapak/Ibu:">>,
     <<"">>,
     <<"Nama: ", student.name>>,
     <<"Kelas: ", student.class>>,
     <<"NISN: ", student.nisn>>,
     <<"">>,
     <<"Telah melakukan pelanggaran pada:">>,
     <<"Hari/Tanggal: ", FormatDate(violation.violation_time)>>,
     <<"Waktu: ", FormatTime(violation.violation_time)>>,
     <<"Jenis Pelanggaran: ", violation.violation_type>>,
     <<"Lokasi: ", violation.location>> >>
  \o DescriptionLines(violation)
  \o PhotoLines(violation)
  \o << <<"">>,
        <<"Mohon untuk memberikan pembinaan kepada anak Bapak/Ibu di rumah.">>,
        <<"">>,
        <<"Terima kasih atas perhatiannya.">>,
        <<"">>,
        <<"Hormat kami,">>,
        <<"Sekolah">> >>

\* faulty variant: a missing violation yields an empty message instead of an error
generateViolationMessageResult_NoThrow(violationId) ==
  LET results == JoinViolationStudent(violationId)
  IN IF Len(results) = 0
     THEN Returned(<<>>)
     ELSE Returned(ComposeMessage(results[1].violations, results[1].students))

generateViolationMessageResult(violationId) ==
  LET results == JoinViolationStudent(violationId)
  IN IF Len(results) = 0
     THEN Threw(<<"Violation not found">>)
     ELSE Returned(ComposeMessage(results[1].violations, results[1].students))

generateViolationMessage(violationId) ==
  /\ Call("generateViolationMessage", violationId,
          generateViolationMessageResult(violationId))
  /\ UNCHANGED <<students, users, violations, studentSeq, userSeq,
                 violationSeq, now, others>>

previewWhatsAppMessageResult(violationId) ==
  LET results == JoinViolationStudent(violationId)
  IN IF Len(results) = 0
     THEN Threw(<<"Violation not found">>)
     ELSE LET message == generateViolationMessageResult(violationId)
          IN IF message.threw
             THEN message
             ELSE Returned([message |-> message.value,
                            recipient |-> results[1].students.parent_whatsapp,
                            studentName |-> results[1].students.name,
                            violationType |-> results[1].violations.violation_type])

previewWhatsAppMessage(violationId) ==
  /\ Call("previewWhatsAppMessage", violationId,
          previewWhatsAppMessageResult(violationId))
  /\ UNCHANGED <<students, users, violations, studentSeq, userSeq,
                 violationSeq, now, others>>

\* page requests and column edits of the record keeping handlers
Pages ==
  { <<>>, [limit |-> 1], [offset |-> 1], [limit |-> 1, offset |-> 1],
    [limit |-> 2, offset |-> 0] }

GetViolationsPageInputs == { g @@ page : g \in GetViolationsInputs, page \in Pages }

RecordPatches ==
  { [description |-> Some(""), photo_url |-> Some("")],
    [description |-> Null] }

RescheduleInputs == { [id |-> i, violation_time |-> 3] : i \in ViolationIds }

RecordUpdateInputs == { [id |-> i] @@ patch : i \in ViolationIds, patch \in RecordPatches }

\* ---- photo evidence: texts are sequences of characters ----

UPLOAD_DIR == <<"u", "p", "l", "o", "a", "d", "s", "/", "p", "h", "o", "t", "o", "s">>
MAX_FILE_SIZE == 5 * 1024 * 1024
ALLOWED_FORMATS == { <<"j", "p", "e", "g">>, <<"j", "p", "g">>, <<"p", "n", "g">>, <<"g", "i", "f">> }

UpperCase == <<"A", "B", "C", "D", "E", "F", "G", "H", "I", "J", "K", "L", "M", "N", "O", "P", "Q", "R", "S", "T", "U", "V", "W", "X", "Y", "Z">>
LowerCase == <<"a", "b", "c", "d", "e", "f", "g", "h", "i", "j", "k", "l", "m", "n", "o", "p", "q", "r", "s", "t", "u", "v", "w", "x", "y", "z">>
DigitChars == <<"0", "1", "2", "3", "4", "5", "6", "7", "8", "9">>
Base64Alphabet == UpperCase \o LowerCase \o DigitChars \o <<"+", "/">>

Range(s) == { s[i] : i \in 1..Len(s) }

\* \w of a regular expression
WordChars == Range(UpperCase) \cup Range(LowerCase) \cup Range(DigitChars) \cup {"_"}

IndexOf(c, s) == CHOOSE i \in 1..Len(s) : s[i] = c

\* String.prototype.toLowerCase
ToLowerCase(s) ==
  [i \in 1..Len(s) |-> IF s[i] \in Range(UpperCase)
                       THEN LowerCase[IndexOf(s[i], UpperCase)] ELSE s[i]]

StartsWith(s, prefix) ==
  Len(s) >= Len(prefix) /\ SubSeq(s, 1, Len(prefix)) = prefix

\* String.prototype.includes
Includes(s, sub) ==
  \E i \in 1..(Len(s) - Len(sub) + 1) : SubSeq(s, i, i + Len(sub) - 1) = sub

Drop(s, n) == SubSeq(s, n + 1, Len(s))

\* the decimal digits of a number, as Date.now() is written into a name
RECURSIVE Digits(_)
Digits(n) ==
  IF n < 10 THEN <<DigitChars[n + 1]>>
  ELSE Digits(n \div 10) \o <<DigitChars[(n % 10) + 1]>>

\* a file_data text: the characters of text followed by bulk times "AAAA"; the
\* header of a data URL, when there is one, lies within text
FileData(text, bulk) == [text |-> text, bulk |-> bulk]

DataImage == <<"d", "a", "t", "a", ":", "i", "m", "a", "g", "e", "/">>
Base64Marker == <<";", "b", "a", "s", "e", "6", "4", ",">>

\* the length of the longest run of \w characters at the start of s
RECURSIVE WordRun(_)
WordRun(s) ==
  IF s # <<>> /\ Head(s) \in WordChars THEN 1 + WordRun(Tail(s)) ELSE 0

\* fileData.match(/^data:image\/(\w+);base64,/): the captured format, or Null
MimeMatch(fileData) ==
  IF ~StartsWith(fileData.text, DataImage) THEN Null
  ELSE LET rest == Drop(fileData.text, Len(DataImage))
           n == WordRun(rest)
       IN IF n > 0 /\ StartsWith(Drop(rest, n), Base64Marker)
          THEN Some(SubSeq(rest, 1, n))
          ELSE Null

\* fileData.replace(/^data:image\/\w+;base64,/, '')
StripHeader(fileData) ==
  LET match == MimeMatch(fileData)
  IN IF match = Null THEN fileData
     ELSE [fileData EXCEPT
             !.text = Drop(@, Len(DataImage) + Len(match[1]) + Len(Base64Marker))]

\* the number of "=" characters at the end of s
RECURSIVE PaddingRun(_)
PaddingRun(s) ==
  IF s # <<>> /\ s[Len(s)] = "=" THEN 1 + PaddingRun(SubSeq(s, 1, Len(s) - 1)) ELSE 0

\* /^[A-Za-z0-9+/]*={0,2}$/.test(base64Data)
IsBase64(base64Data) ==
  LET padding == IF base64Data.bulk > 0 THEN 0 ELSE PaddingRun(base64Data.text)
      body == SubSeq(base64Data.text, 1, Len(base64Data.text) - padding)
  IN /\ padding <= 2
     /\ \A i \in 1..Len(body) : body[i] \in Range(Base64Alphabet)

\* three bytes of four base64 characters
GroupBytes(a, b, c, d) ==
  LET bits == ((a * 64 + b) * 64 + c) * 64 + d
  IN << bits \div 65536, (bits \div 256) % 256, bits % 256 >>

RECURSIVE SextetBytes(_)
SextetBytes(sextets) ==
  IF Len(sextets) < 4 THEN <<>>
  ELSE GroupBytes(sextets[1], sextets[2], sextets[3], sextets[4])
       \o SextetBytes(Drop(sextets, 4))

RECURSIVE StripZeros(_)
StripZeros(bytes) ==
  IF bytes # <<>> /\ bytes[Len(bytes)] = 0
  THEN StripZeros(SubSeq(bytes, 1, Len(bytes) - 1)) ELSE bytes

\* Buffer.from(base64Data, 'base64') of a text that passed IsBase64: a buffer
\* is its length and its bytes up to the last one that is not zero
BufferFromBase64(base64Data) ==
  LET body == SelectSeq(base64Data.text, LAMBDA c : c # "=")
      sextets == [i \in 1..Len(body) |-> IndexOf(body[i], Base64Alphabet) - 1]
      length == ((Len(sextets) + 4 * base64Data.bulk) * 6) \div 8
      padded == sextets \o [i \in 1..((4 - (Len(sextets) % 4)) % 4) |-> 0]
      bytes == SextetBytes(padded)
  IN [length |-> length,
      bytes |-> StripZeros(SubSeq(bytes, 1, Min(length, Len(bytes))))]

\* buffer[i], for i < buffer.length
ByteAt(buffer, i) == IF i < Len(buffer.bytes) THEN buffer.bytes[i + 1] ELSE 0

\* faulty variant: a buffer of fewer than eight bytes is looked at too
validateImageHeader_NoMinimum(buffer, format) ==
  IF format \in { <<"j", "p", "e", "g">>, <<"j", "p", "g">> }
  THEN ByteAt(buffer, 0) = 255 /\ ByteAt(buffer, 1) = 216 /\ ByteAt(buffer, 2) = 255
  ELSE IF format = <<"p", "n", "g">>
  THEN [i \in 1..8 |-> ByteAt(buffer, i - 1)] = <<137, 80, 78, 71, 13, 10, 26, 10>>
  ELSE IF format = <<"g", "i", "f">>
  THEN [i \in 1..6 |-> ByteAt(buffer, i - 1)]
         \in { <<71, 73, 70, 56, 55, 97>>, <<71, 73, 70, 56, 57, 97>> }
  ELSE FALSE

validateImageHeader(buffer, format) ==
  IF buffer.length < 8 THEN FALSE
  ELSE IF format \in { <<"j", "p", "e", "g">>, <<"j", "p", "g">> }
  THEN ByteAt(buffer, 0) = 255 /\ ByteAt(buffer, 1) = 216 /\ ByteAt(buffer, 2) = 255
  ELSE IF format = <<"p", "n", "g">>
  THEN [i \in 1..8 |-> ByteAt(buffer, i - 1)] = <<137, 80, 78, 71, 13, 10, 26, 10>>
  ELSE IF format = <<"g", "i", "f">>
  THEN [i \in 1..6 |-> ByteAt(buffer, i - 1)]
         \in { <<71, 73, 70, 56, 55, 97>>, <<71, 73, 70, 56, 57, 97>> }
  ELSE FALSE

Valid(format) == [valid |-> TRUE, format |-> format]
Invalid(error) == [valid |-> FALSE, error |-> error]

validatePhotoFormat(fileData) ==
  LET mimeMatch == MimeMatch(fileData)
  IN IF mimeMatch = Null THEN Invalid(<<"Invalid base64 image data format">>)
     ELSE LET format == ToLowerCase(mimeMatch[1])
              base64Data == StripHeader(fileData)
          IN IF format \notin ALLOWED_FORMATS
             THEN Invalid(<<"Unsupported image format: ", format,
                            ". Allowed formats: jpeg, jpg, png, gif">>)
             ELSE IF (base64Data.text # <<>> \/ base64Data.bulk > 0)
                     /\ ~IsBase64(base64Data)
             THEN Invalid(<<"Invalid base64 encoding">>)
             ELSE LET buffer == BufferFromBase64(base64Data)
                  IN IF buffer.length > MAX_FILE_SIZE
                     THEN Invalid(<<"File size exceeds maximum limit of 5MB">>)
                     ELSE IF ~validateImageHeader(buffer, format)
                     THEN Invalid(<<"File does not appear to be a valid image">>)
                     ELSE Valid(format)

\* text.split(separator)
RECURSIVE Split(_, _)
Split(s, separator) ==
  IF \E i \in 1..Len(s) : s[i] = separator
  THEN LET i == CHOOSE j \in 1..Len(s) :
                  s[j] = separator /\ \A k \in 1..(j - 1) : s[k] # separator
       IN <<SubSeq(s, 1, i - 1)>> \o Split(Drop(s, i), separator)
  ELSE <<s>>

\* the segments of a relative path with "", "." and ".." resolved
RECURSIVE Normalize(_, _)
Normalize(done, segments) ==
  IF segments = <<>> THEN done
  ELSE IF Head(segments) \in { <<>>, <<".">> } THEN Normalize(done, Tail(segments))
  ELSE IF Head(segments) = <<".", ".">> /\ done # <<>> /\ done[Len(done)] # <<".", ".">>
  THEN Normalize(SubSeq(done, 1, Len(done) - 1), Tail(segments))
  ELSE Normalize(Append(done, Head(segments)), Tail(segments))

\* path.join(directory, name), as the segments of the path
Join(directory, name) == Normalize(<<>>, Split(directory \o <<"/">> \o name, "/"))

\* the directories that exist: the working directory and those above it, and,
\* once made (mkdir with recursive: true), the upload directory and the one
\* it lies in
IsDirectory(made, path) ==
  \/ \A i \in 1..Len(path) : path[i] = <<".", ".">>
  \/ made /\ path \in { SubSeq(Join(UPLOAD_DIR, <<>>), 1, 1), Join(UPLOAD_DIR, <<>>) }

\* existsSync(path)
ExistsSync(path) == IsDirectory(uploadDir, path) \/ path \in DOMAIN files

InvalidFilename(fileName) ==
  Includes(fileName, <<".", ".">>) \/ Includes(fileName, <<"/">>)
    \/ Includes(fileName, <<"\\">>)

PhotoCall(op, arg, ret) ==
  /\ Call(op, arg, ret)
  /\ UNCHANGED <<students, users, violations, studentSeq, userSeq,
                 violationSeq, now, procs>>

\* `${timestamp}_${input.file_name}.${fileExtension}`
FileName(timestamp, name, fileExtension) ==
  Digits(timestamp) \o <<"_">> \o name \o <<".">> \o fileExtension

\* faulty variant: the file is written whatever the validation says
uploadPhoto_StoreUnvalidated(input) ==
  /\ ops < MaxPhotoOps
  /\ LET fileName == FileName(now, input.file_name, <<"j", "p", "g">>)
         filePath == Join(UPLOAD_DIR, fileName)
     IN /\ uploadDir' = TRUE
        /\ MaxPhotos > Cardinality(DOMAIN files \ {filePath})
        /\ files' = [p \in DOMAIN files \cup {filePath} |->
                       IF p = filePath THEN [length |-> 0, bytes |-> <<>>]
                       ELSE files[p]]
        /\ issued' = issued \cup {fileName}
        /\ PhotoCall("uploadPhoto", input,
                     Returned([url |-> fileName, fileName |-> fileName]))

uploadPhoto(input) ==
  /\ ops < MaxPhotoOps
  /\ LET validation == validatePhotoFormat(input.file_data)
     IN IF ~validation.valid
        THEN /\ PhotoCall("uploadPhoto", input, Threw(validation.error))
             /\ UNCHANGED <<files, uploadDir, issued>>
        ELSE LET buffer == BufferFromBase64(StripHeader(input.file_data))
                 fileName == FileName(now, input.file_name, validation.format)
                 filePath == Join(UPLOAD_DIR, fileName)
             IN /\ uploadDir' = TRUE
                /\ IF /\ filePath # <<>>
                      /\ IsDirectory(TRUE, SubSeq(filePath, 1, Len(filePath) - 1))
                   THEN /\ MaxPhotos > Cardinality(DOMAIN files \ {filePath})
                        /\ files' = [p \in DOMAIN files \cup {filePath} |->
                                       IF p = filePath THEN buffer ELSE files[p]]
                        /\ issued' = issued \cup {fileName}
                        /\ PhotoCall("uploadPhoto", input,
                             Returned([url |-> <<"/", "u", "p", "l", "o", "a", "d", "s", "/", "p", "h", "o", "t", "o", "s", "/">> \o fileName,
                                       fileName |-> fileName]))
                   ELSE /\ PhotoCall("uploadPhoto", input,
                             Threw(<<"ENOENT: no such file or directory, open ", filePath>>))
                        /\ UNCHANGED <<files, issued>>

\* faulty variant: a malformed name is an error, as it is for deletePhoto
getPhotoResult_Rethrow(fileName) ==
  IF InvalidFilename(fileName) THEN Threw(<<"Invalid filename">>)
  ELSE LET filePath == Join(UPLOAD_DIR, fileName)
       IN IF filePath \in DOMAIN files THEN Returned(Some(files[filePath]))
          ELSE Returned(Null)

\* the throw on a malformed name and the failure to read a directory both end
\* in the catch block, which returns null
getPhotoResult(fileName) ==
  IF InvalidFilename(fileName) THEN Returned(Null)
  ELSE LET filePath == Join(UPLOAD_DIR, fileName)
       IN IF ~ExistsSync(filePath) THEN Returned(Null)
          ELSE IF filePath \in DOMAIN files THEN Returned(Some(files[filePath]))
          ELSE Returned(Null)

getPhoto(fileName) ==
  /\ ops < MaxPhotoOps
  /\ PhotoCall("getPhoto", fileName, getPhotoResult(fileName))
  /\ UNCHANGED <<files, uploadDir, issued>>

\* faulty variant: the name is not looked at before the file is removed
deletePhoto_NoValidation(fileName) ==
  /\ ops < MaxPhotoOps
  /\ LET filePath == Join(UPLOAD_DIR, fileName)
     IN /\ files' = [p \in DOMAIN files \ {filePath} |-> files[p]]
        /\ PhotoCall("deletePhoto", fileName, Returned(Void))
        /\ UNCHANGED <<uploadDir, issued>>

\* unlink of a directory fails, and the failure is swallowed
deletePhoto(fileName) ==
  /\ ops < MaxPhotoOps
  /\ IF InvalidFilename(fileName)
     THEN /\ PhotoCall("deletePhoto", fileName, Threw(<<"Invalid filename">>))
          /\ UNCHANGED <<files, uploadDir, issued>>
     ELSE LET filePath == Join(UPLOAD_DIR, fileName)
          IN /\ files' = [p \in DOMAIN files \ {filePath} |-> files[p]]
             /\ PhotoCall("deletePhoto", fileName, Returned(Void))
             /\ UNCHANGED <<uploadDir, issued>>

ValidPng == FileData(<<"d", "a", "t", "a", ":", "i", "m", "a", "g", "e", "/", "p", "n", "g", ";", "b", "a", "s", "e", "6", "4", ",", "i", "V", "B", "O", "R", "w", "0", "K", "G", "g", "o", "A">>, 0)
ValidJpeg == FileData(<<"d", "a", "t", "a", ":", "i", "m", "a", "g", "e", "/", "j", "p", "e", "g", ";", "b", "a", "s", "e", "6", "4", ",", "/", "9", "j", "/", "4", "A", "A", "Q", "S", "k", "Z", "J">>, 0)
ValidGif == FileData(<<"d", "a", "t", "a", ":", "i", "m", "a", "g", "e", "/", "g", "i", "f", ";", "b", "a", "s", "e", "6", "4", ",", "R", "0", "l", "G", "O", "D", "l", "h", "A", "Q", "A", "B">>, 0)

InvalidPhotoData ==
  { FileData(<<"d", "a", "t", "a", ":", "i", "m", "a", "g", "e", "/", "b", "m", "p", ";", "b", "a", "s", "e", "6", "4", ",", "Q", "k", "0", "e", "A", "A", "A", "A">>, 0),
    FileData(<<"d", "a", "t", "a", ":", "i", "m", "a", "g", "e", "/", "j", "p", "e", "g", ";", "b", "a", "s", "e", "6", "4", ",", "i", "n", "v", "a", "l", "i", "d", "-", "b", "a", "s", "e", "6", "4", "-", "d", "a", "t", "a", "!">>, 0),
    FileData(<<"n", "o", "t", "-", "a", "-", "v", "a", "l", "i", "d", "-", "b", "a", "s", "e", "6", "4", "-", "i", "m", "a", "g", "e">>, 0) }

OriginalNames == { <<"t", "e", "s", "t", "_", "p", "h", "o", "t", "o">>, <<"s", "c", "a", "n", ".">>, <<"/", ".", ".", "/", "x">>, <<"a", "/", "b">> }

UploadPhotoInputs ==
  { [file_data |-> d, file_name |-> n] : d \in {ValidPng}, n \in OriginalNames }
    \cup { [file_data |-> d, file_name |-> <<"i", "n", "v", "a", "l", "i", "d", "_", "p", "h", "o", "t", "o">>] : d \in InvalidPhotoData }

\* names a caller may ask for, besides those uploadPhoto has returned
RequestedNames ==
  { <<"n", "o", "n", "e", "x", "i", "s", "t", "e", "n", "t", ".", "j", "p", "g">>, <<".", ".", "/", ".", ".", "/", ".", ".", "/", "e", "t", "c", "/", "p", "a", "s", "s", "w", "d">>, <<".", ".", "\\", "w", "i", "n", "d", "o", "w", "s", "\\", "s", "y", "s", "t", "e", "m", "3", "2">>, <<>> }

\* data URLs and other texts handed to the validator: sound images of each
\* format, images around the size limits, and texts that fail each check
ImageData ==
  { ValidPng, ValidJpeg, ValidGif,
    FileData(<<"d", "a", "t", "a", ":", "i", "m", "a", "g", "e", "/", "g", "i", "f", ";", "b", "a", "s", "e", "6", "4", ",", "R", "0", "l", "G", "O", "D", "d", "h", "A", "Q", "A", "B">>, 0),
    FileData(<<"d", "a", "t", "a", ":", "i", "m", "a", "g", "e", "/", "j", "p", "g", ";", "b", "a", "s", "e", "6", "4", ",", "/", "9", "j", "/", "4", "A", "A", "Q", "S", "k", "Z", "J">>, 0),
    FileData(<<"d", "a", "t", "a", ":", "i", "m", "a", "g", "e", "/", "P", "N", "G", ";", "b", "a", "s", "e", "6", "4", ",", "i", "V", "B", "O", "R", "w", "0", "K", "G", "g", "o", "A">>, 0),
    FileData(<<"d", "a", "t", "a", ":", "i", "m", "a", "g", "e", "/", "p", "n", "g", ";", "b", "a", "s", "e", "6", "4", ",", "i", "V", "B", "O", "R", "w", "0", "K", "G", "g", "o", "=">>, 0),
    FileData(<<"d", "a", "t", "a", ":", "i", "m", "a", "g", "e", "/", "j", "p", "e", "g", ";", "b", "a", "s", "e", "6", "4", ",", "/", "9", "j", "/", "4", "A", "A", "=">>, 0),
    FileData(<<"d", "a", "t", "a", ":", "i", "m", "a", "g", "e", "/", "g", "i", "f", ";", "b", "a", "s", "e", "6", "4", ",", "R", "0", "l", "G", "O", "D", "l", "h", "A", "Q", "=", "=">>, 0),
    FileData(<<"d", "a", "t", "a", ":", "i", "m", "a", "g", "e", "/", "p", "n", "g", ";", "b", "a", "s", "e", "6", "4", ",", "/", "9", "j", "/", "4", "A", "A", "Q", "S", "k", "Z", "J">>, 0),
    FileData(<<"d", "a", "t", "a", ":", "i", "m", "a", "g", "e", "/", "j", "p", "e", "g", ";", "b", "a", "s", "e", "6", "4", ",">>, 0),
    FileData(<<"d", "a", "t", "a", ":", "i", "m", "a", "g", "e", "/", "p", "n", "g", ";", "b", "a", "s", "e", "6", "4", ",", "i", "V", "B", "O", "R", "w", "0", "K", "G", "g", "o", "A", "=", "=", "=">>, 0),
    FileData(<<"d", "a", "t", "a", ":", "i", "m", "a", "g", "e", "/", "p", "n", "g", ";", "b", "a", "s", "e", "6", "4", ",", "i", "V", "B", "O", "=", "R", "w", "0", "K", "G", "g", "o", "A">>, 0),
    FileData(<<"d", "a", "t", "a", ":", "i", "m", "a", "g", "e", "/", "w", "e", "b", "p", ";", "b", "a", "s", "e", "6", "4", ",", "U", "k", "l", "G", "R", "i", "Q", "A", "A", "A", "B", "X">>, 0),
    FileData(<<"d", "a", "t", "a", ":", "i", "m", "a", "g", "e", "/", "j", "p", "e", "g", ";", "b", "a", "s", "e", "6", "4", ",", "/", "9", "j", "/", "4", "A", "A", "Q", "S", "k", "Z", "J">>, 70000),
    FileData(<<"d", "a", "t", "a", ":", "i", "m", "a", "g", "e", "/", "p", "n", "g", ";", "b", "a", "s", "e", "6", "4", ",", "i", "V", "B", "O", "R", "w", "0", "K", "G", "g", "o">>, 68264),
    FileData(<<"d", "a", "t", "a", ":", "i", "m", "a", "g", "e", "/", "j", "p", "g", ";", "b", "a", "s", "e", "6", "4", ",", "/", "9", "j", "/", "4", "A", "A", "Q", "S", "k", "Z", "J">>, 68264),
    FileData(<<"d", "a", "t", "a", ":", "i", "m", "a", "g", "e", "/", "p", "n", "g", ";", "b", "a", "s", "e", "6", "4", ",", "i", "V", "B", "O", "R", "w", "0", "K", "G", "g", "o">>, 1747624),
    FileData(<<"d", "a", "t", "a", ":", "i", "m", "a", "g", "e", "/", "j", "p", "e", "g", ";", "b", "a", "s", "e", "6", "4", ",", "/", "9", "j", "/", "4", "A", "A", "Q", "S", "k", "Z", "J">>, 1747624),
    FileData(<<"d", "a", "t", "a", ":", "i", "m", "a", "g", "e", "/", "j", "p", "e", "g", ";", "b", "a", "s", "e", "6", "4", ",">>, 1835008) }
    \cup InvalidPhotoData

validate(fileData) ==
  /\ ops < MaxPhotoOps
  /\ PhotoCall("validatePhotoFormat", fileData, Returned(validatePhotoFormat(fileData)))
  /\ UNCHANGED <<files, uploadDir, issued>>

THUMBNAIL_MAX_SIZE == 200 * 1024

\* buffer.slice(0, end)
Slice(buffer, end) ==
  [length |-> Min(end, buffer.length),
   bytes |-> StripZeros(SubSeq(buffer.bytes, 1, Min(end, Len(buffer.bytes))))]

GroupChars(a, b, c) ==
  LET bits == (a * 256 + b) * 256 + c
  IN << Base64Alphabet[(bits \div 262144) + 1],
        Base64Alphabet[((bits \div 4096) % 64) + 1],
        Base64Alphabet[((bits \div 64) % 64) + 1],
        Base64Alphabet[(bits % 64) + 1] >>

RECURSIVE ByteChars(_)
ByteChars(bytes) ==
  IF Len(bytes) < 3 THEN <<>>
  ELSE GroupChars(bytes[1], bytes[2], bytes[3]) \o ByteChars(Drop(bytes, 3))

\* buffer.toString('base64'): the groups after the last byte that is not zero
\* are "AAAA" each, when the length is a multiple of three
ToBase64(buffer) ==
  LET shown == IF buffer.length % 3 = 0
               THEN Min(((Len(buffer.bytes) + 2) \div 3) * 3, buffer.length)
               ELSE buffer.length
      padded == [i \in 1..(((shown + 2) \div 3) * 3) |-> ByteAt(buffer, i - 1)]
      chars == ByteChars(padded)
      kept == (shown * 8 + 5) \div 6
  IN FileData(SubSeq(chars, 1, kept) \o [i \in 1..(Len(chars) - kept) |-> "="],
              (buffer.length - shown) \div 3)

\* faulty variant: the size is rounded up to a multiple of three
generatePhotoThumbnailResult_RoundUp(fileData) ==
  LET validation == validatePhotoFormat(fileData)
  IN IF ~validation.valid THEN Threw(validation.error)
     ELSE LET buffer == BufferFromBase64(StripHeader(fileData))
              originalSize == buffer.length
          IN IF originalSize <= THUMBNAIL_MAX_SIZE THEN Returned(fileData)
             ELSE LET thumbnailSize == THUMBNAIL_MAX_SIZE
                      adjustedSize == ((thumbnailSize + 2) \div 3) * 3
                      thumbnailBase64 == ToBase64(Slice(buffer, adjustedSize))
                      mimeType == IF validation.format = <<"j", "p", "g">> THEN <<"j", "p", "e", "g">>
                                  ELSE validation.format
                  IN Returned(FileData(DataImage \o mimeType \o Base64Marker
                                         \o thumbnailBase64.text,
                                       thumbnailBase64.bulk))

\* Math.floor(originalSize * (THUMBNAIL_MAX_SIZE / originalSize)) is
\* THUMBNAIL_MAX_SIZE, or one less when the floating-point product is rounded
\* down; the division by three gives the same adjustedSize for both
generatePhotoThumbnailResult(fileData) ==
  LET validation == validatePhotoFormat(fileData)
  IN IF ~validation.valid THEN Threw(validation.error)
     ELSE LET buffer == BufferFromBase64(StripHeader(fileData))
              originalSize == buffer.length
          IN IF originalSize <= THUMBNAIL_MAX_SIZE THEN Returned(fileData)
             ELSE LET thumbnailSize == THUMBNAIL_MAX_SIZE
                      floored == (thumbnailSize \div 3) * 3
                      adjustedSize == IF floored > 1024 THEN floored ELSE 1024
                      thumbnailBase64 == ToBase64(Slice(buffer, adjustedSize))
                      mimeType == IF validation.format = <<"j", "p", "g">> THEN <<"j", "p", "e", "g">>
                                  ELSE validation.format
                  IN Returned(FileData(DataImage \o mimeType \o Base64Marker
                                         \o thumbnailBase64.text,
                                       thumbnailBase64.bulk))

generatePhotoThumbnail(fileData) ==
  /\ ops < MaxPhotoOps
  /\ PhotoCall("generatePhotoThumbnail", fileData,
               generatePhotoThumbnailResult(fileData))
  /\ UNCHANGED <<files, uploadDir, issued>>

\* ---- handlers statement by statement, with calls in flight ----

ConcCreateInputs ==
  { input \in CreateViolationInputs :
      input.violation_type = "Terlambat" /\ input.reported_by = 1 }

ConcUpdateInputs == { [id |-> i, student_id |-> s] : i \in ViolationIds, s \in StudentIds }

\* what an UPDATE ... RETURNING that matched no row leaves in result[0]
Undefined == "undefined"

ForeignKeyError(table) ==
  Threw(<<"violates foreign key constraint", table, "violations_student_id_students_id_fk">>)

\* faulty variant: the references of a violation row are not enforced
ForeignKeysHold_Unenforced(row) == TRUE

\* student_id REFERENCES students(id), reported_by REFERENCES users(id)
ForeignKeysHold(row) ==
  /\ row.student_id \in DOMAIN students
  /\ row.reported_by \in DOMAIN users

\* the calls in flight are a bag of [op, arg, pc, existing]: the handler, its
\* input, the statement it runs next and the row its first SELECT returned
InFlight == BagCardinality(procs)

\* a handler is called and runs up to its first statement
CanBegin ==
  /\ InFlight < MaxInFlight
  /\ ops + InFlight < MaxConcOps

\* the called handler returns or throws at its first statement
FinishAtOnce(op, arg, ret) ==
  /\ ops' = ops + 1
  /\ last' = [op |-> op, arg |-> arg, at |-> now, before |-> Store, ret |-> ret]
  /\ UNCHANGED procs

\* the called handler goes on to its next statement
Continue(op, arg, pc, existing) ==
  /\ procs' = procs (+) SetToBag({[op |-> op, arg |-> arg, pc |-> pc,
                                   existing |-> existing]})
  /\ UNCHANGED <<last, ops>>

\* the call in flight returns or throws
Finish(call, ret) ==
  /\ procs' = procs (-) SetToBag({call})
  /\ ops' = ops + 1
  /\ last' = [op |-> call.op, arg |-> call.arg, at |-> now, before |-> Store,
              ret |-> ret]

\* the call in flight goes on to its next statement
Goto(call, pc) ==
  /\ procs' = (procs (-) SetToBag({call})) (+) SetToBag({[call EXCEPT !.pc = pc]})
  /\ UNCHANGED <<last, ops>>

At(call, op, pc) == BagIn(call, procs) /\ call.op = op /\ call.pc = pc

createViolation_selectStudent(input) ==
  /\ CanBegin
  /\ IF Len(SelectStudent(input.student_id)) = 0
     THEN FinishAtOnce("createViolation", input,
                       Threw(<<"Student with ID ", input.student_id, " not found">>))
     ELSE Continue("createViolation", input, "reporter", <<>>)
  /\ UNCHANGED <<students, users, violations, studentSeq, userSeq,
                 violationSeq, now, photoVars>>

createViolation_selectReporter(call) ==
  /\ At(call, "createViolation", "reporter")
  /\ IF Len(SelectUser(call.arg.reported_by)) = 0
     THEN Finish(call, Threw(<<"User with ID ", call.arg.reported_by, " not found">>))
     ELSE Goto(call, "insert")
  /\ UNCHANGED <<students, users, violations, studentSeq, userSeq,
                 violationSeq, now, photoVars>>

\* the serial is taken before the row is checked against its references
createViolation_insert(call) ==
  /\ At(call, "createViolation", "insert")
  /\ violationSeq <= MaxViolations
  /\ violationSeq' = violationSeq + 1
  /\ LET row == NewViolation(call.arg, violationSeq, now)
     IN IF ForeignKeysHold(row)
        THEN /\ violations' = violations @@ (violationSeq :> row)
             /\ Finish(call, Returned(row))
        ELSE /\ Finish(call, ForeignKeyError("violations"))
             /\ UNCHANGED violations
  /\ UNCHANGED <<students, users, studentSeq, userSeq, now, photoVars>>

updateViolation_selectExisting(input) ==
  /\ CanBegin
  /\ LET existing == SelectViolation(input.id)
     IN IF Len(existing) = 0
        THEN FinishAtOnce("updateViolation", input,
                          Threw(<<"Violation with ID ", input.id, " not found">>))
        ELSE Continue("updateViolation", input,
                      IF Supplied(input, "student_id") THEN "student" ELSE "update",
                      existing)
  /\ UNCHANGED <<students, users, violations, studentSeq, userSeq,
                 violationSeq, now, photoVars>>

updateViolation_selectStudent(call) ==
  /\ At(call, "updateViolation", "student")
  /\ IF Len(SelectStudent(call.arg.student_id)) = 0
     THEN Finish(call, Threw(<<"Student with ID ", call.arg.student_id, " not found">>))
     ELSE Goto(call, "update")
  /\ UNCHANGED <<students, users, violations, studentSeq, userSeq,
                 violationSeq, now, photoVars>>

updateViolation_update(call) ==
  /\ At(call, "updateViolation", "update")
  /\ LET input == call.arg
         data == updateData(input, call.existing[1], now)
     IN IF input.id \notin DOMAIN violations
        THEN /\ Finish(call, Returned(Undefined))
             /\ UNCHANGED violations
        ELSE LET row == SetColumns(violations[input.id], data)
             IN IF ForeignKeysHold(row)
                THEN /\ violations' = [violations EXCEPT ![input.id] = row]
                     /\ Finish(call, Returned(row))
                ELSE /\ Finish(call, ForeignKeyError("violations"))
                     /\ UNCHANGED violations
  /\ UNCHANGED <<students, users, studentSeq, userSeq, violationSeq, now,
                 photoVars>>

deleteStudent_count(id) ==
  /\ CanBegin
  /\ IF CountViolationsOf(id) > 0
     THEN FinishAtOnce("deleteStudent", id,
                       Threw(<<"Cannot delete student with existing violations">>))
     ELSE Continue("deleteStudent", id, "delete", <<>>)
  /\ UNCHANGED <<students, users, violations, studentSeq, userSeq,
                 violationSeq, now, photoVars>>

\* a student that a violation references cannot be deleted (no ON DELETE rule)
deleteStudent_delete(call) ==
  /\ At(call, "deleteStudent", "delete")
  /\ IF \E v \in DOMAIN violations :
          ~ForeignKeysHold([violations[v] EXCEPT
                              !.student_id = IF @ = call.arg THEN 0 ELSE @])
     THEN /\ Finish(call, ForeignKeyError("students"))
          /\ UNCHANGED students
     ELSE IF call.arg \notin DOMAIN students
     THEN /\ Finish(call, Threw(<<"Student not found">>))
          /\ UNCHANGED students
     ELSE /\ students' = DeleteRow(students, call.arg)
          /\ Finish(call, Returned(Void))
  /\ UNCHANGED <<users, violations, studentSeq, userSeq, violationSeq, now,
                 photoVars>>

\* one student, and violations of that student
NotifyStudentInputs == { input \in StudentInputs : input.nisn = "1234567890" }
NotifyCreateInputs == { input \in ConcCreateInputs : input.student_id = 1 }

NotifyUpdateInputs ==
  { [id |-> i, whatsapp_sent |-> b] : i \in ViolationIds, b \in BOOLEAN }

sendWhatsAppMessage_select(input) ==
  /\ CanBegin
  /\ IF Len(SelectViolation(input.violation_id)) = 0
     THEN FinishAtOnce("sendWhatsAppMessage", input,
                       Returned([success |-> FALSE, error |-> "Violation not found"]))
     ELSE Continue("sendWhatsAppMessage", input, "markSent", <<>>)
  /\ UNCHANGED <<students, users, violations, studentSeq, userSeq,
                 violationSeq, now, photoVars>>

\* the UPDATE of markWhatsAppSent, which may match no row, and the return
sendWhatsAppMessage_markSent(call) ==
  /\ At(call, "sendWhatsAppMessage", "markSent")
  /\ violations' = MarkSentRows(violations, call.arg.violation_id, now)
  /\ \E suffix \in RandomSuffixes :
       Finish(call, Returned([success |-> TRUE, messageId |-> MessageId(now, suffix)]))
  /\ UNCHANGED <<students, users, studentSeq, userSeq, violationSeq, now,
                 photoVars>>

deleteViolation_selectExisting(id) ==
  /\ CanBegin
  /\ IF Len(SelectViolation(id)) = 0
     THEN FinishAtOnce("deleteViolation", id,
                       Threw(<<"Violation with ID ", id, " not found">>))
     ELSE Continue("deleteViolation", id, "delete", <<>>)
  /\ UNCHANGED <<students, users, violations, studentSeq, userSeq,
                 violationSeq, now, photoVars>>

\* the DELETE, which may match no row
deleteViolation_delete(call) ==
  /\ At(call, "deleteViolation", "delete")
  /\ violations' = DeleteRow(violations, call.arg)
  /\ Finish(call, Returned(Void))
  /\ UNCHANGED <<students, users, studentSeq, userSeq, violationSeq, now,
                 photoVars>>

Next ==
  \/ Tick
  \/ \E input \in UserInputs : createUser(input)
  \/ \E input \in StudentInputs : createStudent(input)
  \/ \E input \in CreateViolationInputs : createViolation(input)
  \/ \E input \in UpdateViolationInputs : updateViolation(input)
  \/ \E input \in GetViolationsInputs : getViolations(input)
  \/ \E studentId \in StudentIds : getViolationsByStudent(studentId)
  \/ \E violationId \in ViolationIds, messageId \in MessageIds :
       markWhatsAppSent(violationId, messageId)
  \/ \E input \in SendWhatsAppInputs : sendWhatsAppMessage(input)

Spec == Init /\ [][Next]_vars

\* accounts: the handlers that hand out User values
NextUsers ==
  \/ Tick
  \/ \E input \in UserInputs : createUser(input)
  \/ \E input \in LoginInputs : login(input)
  \/ \E userId \in UserIds : getCurrentUser(userId)

SpecUsers == Init /\ [][NextUsers]_vars

\* delivery: notifications sent and marked, the store answering or failing
NextDelivery ==
  \/ Tick
  \/ \E input \in UserInputs : createUser(input)
  \/ \E input \in StudentInputs : createStudent(input)
  \/ \E input \in ConcCreateInputs : createViolation(input)
  \/ \E violationId \in ViolationIds, messageId \in MessageIds :
       markWhatsAppSent(violationId, messageId)
  \/ \E input \in SendWhatsAppInputs : sendWhatsAppMessage(input)
  \/ \E input \in SendWhatsAppInputs, statement \in SendStatements :
       sendWhatsAppMessageFailing(input, statement)

SpecDelivery == Init /\ [][NextDelivery]_vars

\* notification state with calls in flight: a violation is updated, marked,
\* notified and deleted by calls that interleave statement by statement
NextNotify ==
  \/ Tick
  \/ \E input \in UserInputs : createUser(input)
  \/ \E input \in NotifyStudentInputs : createStudent(input)
  \/ \E input \in NotifyCreateInputs : createViolation_selectStudent(input)
  \/ \E call \in DOMAIN procs : createViolation_selectReporter(call)
  \/ \E call \in DOMAIN procs : createViolation_insert(call)
  \/ \E input \in NotifyUpdateInputs : updateViolation_selectExisting(input)
  \/ \E call \in DOMAIN procs : updateViolation_update(call)
  \/ \E violationId \in ViolationIds, messageId \in MessageIds :
       markWhatsAppSent(violationId, messageId)
  \/ \E input \in SendWhatsAppInputs : sendWhatsAppMessage_select(input)
  \/ \E call \in DOMAIN procs : sendWhatsAppMessage_markSent(call)
  \/ \E id \in ViolationIds : deleteViolation_selectExisting(id)
  \/ \E call \in DOMAIN procs : deleteViolation_delete(call)

SpecNotify == Init /\ [][NextNotify]_vars

\* record keeping: the handlers that read, page, preview and delete
NextRecords ==
  \/ Tick
  \/ \E input \in UserInputs : createUser(input)
  \/ \E input \in StudentInputs : createStudent(input)
  \/ \E input \in CreateViolationInputs : createViolation(input)
  \/ \E input \in RecordUpdateInputs : updateViolation(input)
  \/ \E violationId \in ViolationIds, messageId \in MessageIds :
       markWhatsAppSent(violationId, messageId)
  \/ \E id \in ViolationIds : getViolationById(id)
  \/ \E id \in ViolationIds : deleteViolation(id)
  \/ \E id \in StudentIds : deleteStudent(id)
  \/ \E violationId \in ViolationIds : generateViolationMessage(violationId)
  \/ \E violationId \in ViolationIds : previewWhatsAppMessage(violationId)

SpecRecords == Init /\ [][NextRecords]_vars

\* listings: the handlers that list violations, page by page
NextListings ==
  \/ Tick
  \/ \E input \in UserInputs : createUser(input)
  \/ \E input \in StudentInputs : createStudent(input)
  \/ \E input \in CreateViolationInputs : createViolation(input)
  \/ \E input \in RescheduleInputs : updateViolation(input)
  \/ \E input \in GetViolationsPageInputs : getViolations(input)
  \/ \E studentId \in StudentIds : getViolationsByStudent(studentId)

SpecListings == Init /\ [][NextListings]_vars

\* calls in flight: createViolation, updateViolation and deleteStudent run
\* statement by statement, each statement on its own against the store
NextInFlight ==
  \/ \E input \in UserInputs : createUser(input)
  \/ \E input \in StudentInputs : createStudent(input)
  \/ \E input \in ConcCreateInputs : createViolation_selectStudent(input)
  \/ \E call \in DOMAIN procs : createViolation_selectReporter(call)
  \/ \E call \in DOMAIN procs : createViolation_insert(call)
  \/ \E input \in ConcUpdateInputs : updateViolation_selectExisting(input)
  \/ \E call \in DOMAIN procs : updateViolation_selectStudent(call)
  \/ \E call \in DOMAIN procs : updateViolation_update(call)
  \/ \E id \in StudentIds : deleteStudent_count(id)
  \/ \E call \in DOMAIN procs : deleteStudent_delete(call)

SpecInFlight == Init /\ [][NextInFlight]_vars

\* photo evidence: the handlers over the upload directory
NextPhotos ==
  \/ Tick
  \/ \E input \in UploadPhotoInputs : uploadPhoto(input)
  \/ \E fileName \in issued \cup RequestedNames : getPhoto(fileName)
  \/ \E fileName \in issued \cup RequestedNames : deletePhoto(fileName)

SpecPhotos == Init /\ [][NextPhotos]_vars

\* images: the validator (and the thumbnail maker) applied to texts
NextImages ==
  \/ Tick
  \/ \E fileData \in ImageData : validate(fileData)
  \/ \E fileData \in ImageData : generatePhotoThumbnail(fileData)

SpecImages == Init /\ [][NextImages]_vars

\* ---------------------------------------------------------- verification
\* the last call returned a value (did not raise)
Succeeded(op) == last.op = op /\ ~last.ret.threw

\* the store is as it was when the last call started
StoreUnchanged == Store = last.before

\* C1: in every reachable state every stored violation has whatsapp_sent_at
\* non-null if and only if whatsapp_sent is true.
C1_SentAtIffSent ==
  \A i \in DOMAIN violations :
    (violations[i].whatsapp_sent_at # Null) <=> violations[i].whatsapp_sent

\* C2: sendWhatsAppMessage for a violation_id that matches no stored
\* violation returns {success:false, error:"Violation not found"} without a
\* messageId, does not raise, and leaves the store unchanged.
C2_SendMissingViolation ==
  (last.op = "sendWhatsAppMessage"
   /\ last.arg.violation_id \notin DOMAIN last.before.violations)
    => /\ last.ret = Returned([success |-> FALSE, error |-> "Violation not found"])
       /\ StoreUnchanged

C2_Witness ==
  /\ last.op = "sendWhatsAppMessage"
  /\ last.arg.violation_id \notin DOMAIN last.before.violations
  /\ DOMAIN violations # {}

\* C3: whenever sendWhatsAppMessage returns success:true for an existing
\* violation it returns a messageId and the violation afterwards has
\* whatsapp_sent = true and whatsapp_sent_at non-null, whatever it was before.
C3_SendSuccessMarksSent ==
  (Succeeded("sendWhatsAppMessage")
   /\ last.ret.value.success
   /\ last.arg.violation_id \in DOMAIN last.before.violations)
    => LET id == last.arg.violation_id
       IN /\ "messageId" \in DOMAIN last.ret.value
          /\ id \in DOMAIN violations
          /\ violations[id].whatsapp_sent
          /\ violations[id].whatsapp_sent_at # Null

C3_Witness ==
  /\ Succeeded("sendWhatsAppMessage")
  /\ last.ret.value.success
  /\ last.arg.violation_id \in DOMAIN last.before.violations
  /\ last.before.violations[last.arg.violation_id].whatsapp_sent
  /\ violations[last.arg.violation_id].whatsapp_sent

\* C4: markWhatsAppSent on an existing violation sets whatsapp_sent = true and
\* whatsapp_sent_at = the current time whatever the prior state; a call at a
\* clock time later than the stamp left by an earlier call leaves a strictly
\* later whatsapp_sent_at.
C4_MarkSentStampsNow ==
  (last.op = "markWhatsAppSent"
   /\ last.arg.violationId \in DOMAIN last.before.violations)
    => LET old == last.before.violations[last.arg.violationId]
           new == violations[last.arg.violationId]
       IN /\ new.whatsapp_sent
          /\ new.whatsapp_sent_at = Some(last.at)
          /\ (old.whatsapp_sent_at # Null /\ old.whatsapp_sent_at[1] < last.at)
               => new.whatsapp_sent_at[1] > old.whatsapp_sent_at[1]

C4_Witness ==
  /\ last.op = "markWhatsAppSent"
  /\ last.arg.violationId \in DOMAIN last.before.violations
  /\ LET old == last.before.violations[last.arg.violationId]
         new == violations[last.arg.violationId]
     IN /\ old.whatsapp_sent
        /\ old.whatsapp_sent_at # Null
        /\ new.whatsapp_sent_at # Null
        /\ new.whatsapp_sent_at[1] > old.whatsapp_sent_at[1]

\* C5: for a student id X that matches no stored student, in one and the same
\* state getViolations({student_id: X}) returns an empty list without error
\* and getViolationsByStudent(X) fails with a not-found error naming X.
C5_UnknownStudentAsymmetry ==
  /\ \A X \in StudentIds \ DOMAIN students :
       /\ getViolationsResults([student_id |-> X]) = { Returned(<<>>) }
       /\ getViolationsByStudentResults(X)
            = { Threw(<<"Student with ID ", X, " not found">>) }
  /\ (last.op = "getViolations" /\ Supplied(last.arg, "student_id")
      /\ last.arg.student_id \notin DOMAIN students)
       => last.ret = Returned(<<>>)
  /\ (last.op = "getViolationsByStudent" /\ last.arg \notin DOMAIN students)
       => last.ret = Threw(<<"Student with ID ", last.arg, " not found">>)

C5_Witness ==
  /\ last.op = "getViolationsByStudent"
  /\ last.arg \notin DOMAIN students
  /\ last.ret.threw
  /\ DOMAIN violations # {}
  /\ getViolationsResults([student_id |-> last.arg]) = { Returned(<<>>) }

\* C6: createViolation fails with a not-found error naming the student when
\* student_id matches no stored student, and naming the user when the student
\* exists and reported_by matches no stored user; on such a failure nothing is
\* inserted and the store is unchanged.
C6_CreateNotFound ==
  last.op = "createViolation"
    => LET input == last.arg
       IN /\ input.student_id \notin DOMAIN last.before.students
               => /\ last.ret = Threw(<<"Student with ID ", input.student_id,
                                         " not found">>)
                  /\ StoreUnchanged
          /\ (input.student_id \in DOMAIN last.before.students
              /\ input.reported_by \notin DOMAIN last.before.users)
               => /\ last.ret = Threw(<<"User with ID ", input.reported_by,
                                         " not found">>)
                  /\ StoreUnchanged

C6_Witness ==
  /\ last.op = "createViolation"
  /\ last.arg.student_id \in DOMAIN last.before.students
  /\ last.arg.reported_by \notin DOMAIN last.before.users
  /\ last.ret.threw
  /\ DOMAIN violations # {}

\* C7: a successful createViolation adds exactly one violation with a fresh
\* id and the supplied student_id, reported_by, violation_type, location,
\* description, photo_url and violation_time, with whatsapp_sent = false and
\* whatsapp_sent_at = null, returns that stored record, and changes no other
\* violation, student or user.
C7_CreateInsertsOneRow ==
  Succeeded("createViolation")
    => LET input == last.arg
           row == last.ret.value
           old == last.before.violations
       IN /\ row.id \notin DOMAIN old
          /\ row.id >= last.before.violationSeq
          /\ DOMAIN violations = DOMAIN old \cup {row.id}
          /\ violations[row.id] = row
          /\ \A i \in DOMAIN old : violations[i] = old[i]
          /\ row.student_id = input.student_id
          /\ row.reported_by = input.reported_by
          /\ row.violation_type = input.violation_type
          /\ row.location = input.location
          /\ row.description = input.description
          /\ row.photo_url = input.photo_url
          /\ row.violation_time = input.violation_time
          /\ row.whatsapp_sent = FALSE
          /\ row.whatsapp_sent_at = Null
          /\ students = last.before.students
          /\ users = last.before.users

C7_Witness ==
  /\ Succeeded("createViolation")
  /\ Cardinality(DOMAIN violations) = 2
  /\ violations[last.ret.value.id] = last.ret.value
  /\ \E i \in DOMAIN last.before.violations : violations[i].whatsapp_sent

ViolationInputColumns ==
  {"student_id", "violation_type", "location", "description", "photo_url",
   "violation_time", "whatsapp_sent"}

\* C8: a successful updateViolation changes only the supplied fields, plus
\* updated_at (always set to the current time) and whatsapp_sent_at as the side
\* effect of whatsapp_sent; every field not supplied, and reported_by,
\* created_at and id, keeps its value, and no other violation is changed.
C8_UpdateFrame ==
  Succeeded("updateViolation")
    => LET input == last.arg
           old == last.before.violations[input.id]
           new == violations[input.id]
       IN /\ DOMAIN violations = DOMAIN last.before.violations
          /\ \A i \in DOMAIN violations \ {input.id} :
               violations[i] = last.before.violations[i]
          /\ \A c \in ViolationInputColumns :
               IF Supplied(input, c) THEN new[c] = input[c] ELSE new[c] = old[c]
          /\ new.id = old.id
          /\ new.reported_by = old.reported_by
          /\ new.created_at = old.created_at
          /\ new.updated_at = last.at
          /\ new.whatsapp_sent_at # old.whatsapp_sent_at
               => (Supplied(input, "whatsapp_sent") /\ input.whatsapp_sent
                   /\ new.whatsapp_sent_at = Some(last.at))
          /\ last.ret.value = new
          /\ students = last.before.students
          /\ users = last.before.users

C8_Witness ==
  /\ Succeeded("updateViolation")
  /\ DOMAIN last.arg = {"id", "whatsapp_sent"}
  /\ Cardinality(DOMAIN violations) = 2
  /\ last.before.violations[last.arg.id].updated_at
       < violations[last.arg.id].updated_at

\* C9: updateViolation with whatsapp_sent = true on a violation whose stored
\* whatsapp_sent is false sets whatsapp_sent to true and whatsapp_sent_at to
\* the current time in that same update.
C9_UpdateMarksSent ==
  (Succeeded("updateViolation")
   /\ Supplied(last.arg, "whatsapp_sent") /\ last.arg.whatsapp_sent
   /\ ~last.before.violations[last.arg.id].whatsapp_sent)
    => /\ violations[last.arg.id].whatsapp_sent
       /\ violations[last.arg.id].whatsapp_sent_at = Some(last.at)

C9_Witness ==
  /\ Succeeded("updateViolation")
  /\ Supplied(last.arg, "whatsapp_sent") /\ last.arg.whatsapp_sent
  /\ ~last.before.violations[last.arg.id].whatsapp_sent
  /\ last.before.violations[last.arg.id].whatsapp_sent_at = Null
  /\ last.before.violations[last.arg.id].created_at < last.at
  /\ violations[last.arg.id].whatsapp_sent_at = Some(last.at)

\* the violation the last call addressed, when that call wrote
\* whatsapp_sent = true on a stored violation that was already sent
ResentIds ==
  { id \in DOMAIN last.before.violations :
      /\ last.before.violations[id].whatsapp_sent
      /\ \/ last.op = "markWhatsAppSent" /\ last.arg.violationId = id
         \/ Succeeded("sendWhatsAppMessage") /\ last.arg.violation_id = id
            /\ last.ret.value.success
         \/ Succeeded("updateViolation") /\ last.arg.id = id
            /\ Supplied(last.arg, "whatsapp_sent") /\ last.arg.whatsapp_sent }

\* C10 (as claimed): every operation that writes whatsapp_sent = true on a
\* violation whose whatsapp_sent is already true (updateViolation with
\* whatsapp_sent = true, markWhatsAppSent, sendWhatsAppMessage) sets
\* whatsapp_sent_at again to the current time of that operation.
C10_ResendRestampsEveryOperation ==
  \A id \in ResentIds : violations[id].whatsapp_sent_at = Some(last.at)

\* C10 (amended): markWhatsAppSent and sendWhatsAppMessage on an already sent
\* violation set whatsapp_sent_at again to the current time; updateViolation
\* with whatsapp_sent = true on an already sent violation keeps whatsapp_sent
\* true and leaves whatsapp_sent_at as it was.
C10_ResendRestampsMarkAndSend ==
  \A id \in ResentIds :
    /\ violations[id].whatsapp_sent
    /\ IF last.op = "updateViolation"
       THEN violations[id].whatsapp_sent_at
              = last.before.violations[id].whatsapp_sent_at
       ELSE violations[id].whatsapp_sent_at = Some(last.at)

C10_Witness ==
  /\ last.op \in {"markWhatsAppSent", "sendWhatsAppMessage"}
  /\ \E id \in ResentIds :
       /\ last.before.violations[id].whatsapp_sent_at # Some(last.at)
       /\ violations[id].whatsapp_sent_at = Some(last.at)
\* C11: updateViolation fails with a not-found error when id matches no stored
\* violation, and also when student_id is supplied and matches no stored
\* student; in both cases no table, serial or column (updated_at included) changes.
C11_UpdateNotFound ==
  last.op = "updateViolation" =>
    /\ last.arg.id \notin DOMAIN last.before.violations =>
         /\ last.ret = Threw(<<"Violation with ID ", last.arg.id, " not found">>)
         /\ StoreUnchanged
    /\ ( /\ last.arg.id \in DOMAIN last.before.violations
         /\ Supplied(last.arg, "student_id")
         /\ last.arg.student_id \notin DOMAIN last.before.students ) =>
         /\ last.ret =
              Threw(<<"Student with ID ", last.arg.student_id, " not found">>)
         /\ StoreUnchanged

\* an update of a stored violation to an unknown student, called later than
\* the row was last written
C11_Witness ==
  /\ last.op = "updateViolation"
  /\ last.ret.threw
  /\ last.arg.id \in DOMAIN violations
  /\ Supplied(last.arg, "student_id")
  /\ last.arg.student_id \notin DOMAIN students
  /\ last.at > violations[last.arg.id].updated_at

\* C12: deleteViolation(id) fails with a not-found error and changes nothing
\* when id matches no stored violation; otherwise it removes exactly that
\* violation, whatever its state, leaves every other violation and every
\* student and user unchanged, and getViolationById(id) then returns null
\* without raising.
C12_DeleteViolation ==
  last.op = "deleteViolation" =>
    IF last.arg \notin DOMAIN last.before.violations
    THEN /\ last.ret = Threw(<<"Violation with ID ", last.arg, " not found">>)
         /\ StoreUnchanged
    ELSE /\ last.ret = Returned(Void)
         /\ DOMAIN violations = DOMAIN last.before.violations \ {last.arg}
         /\ \A i \in DOMAIN violations : violations[i] = last.before.violations[i]
         /\ students = last.before.students
         /\ users = last.before.users
         /\ getViolationByIdResult(last.arg) = Returned(Null)

\* a violation that was marked sent and carries a photo has just been deleted
C12_Witness ==
  /\ Succeeded("deleteViolation")
  /\ last.arg \in DOMAIN last.before.violations
  /\ last.before.violations[last.arg].whatsapp_sent
  /\ last.before.violations[last.arg].photo_url # Null
  /\ last.arg \notin DOMAIN violations

\* the rows of a table that a page may hold: r is a page of the rows M sorted
\* by violation_time, newest first, after offset rows and of at most limit rows
IsPage(r, M, limit, offset) ==
  LET R == { r[i] : i \in 1..Len(r) }
      n == Cardinality(M)
  IN /\ R \subseteq M
     /\ Cardinality(R) = Len(r)
     /\ \A i \in 1..(Len(r) - 1) : r[i].violation_time >= r[i + 1].violation_time
     /\ Len(r) = IF n - offset < 0 THEN 0 ELSE Min(limit, n - offset)
     /\ \E A \in SUBSET (M \ R) :
          /\ Cardinality(A) = Min(offset, n)
          /\ \A a \in A, x \in R : a.violation_time >= x.violation_time
          /\ \A b \in (M \ R) \ A, x \in R : b.violation_time <= x.violation_time

\* C13: getViolations returns the stored violations (those of student_id when
\* it is supplied) sorted by violation_time, newest first, skips offset rows
\* (0 when absent) and returns at most limit rows (1000 when absent);
\* getViolationsByStudent returns all violations of an existing student in
\* the same order.
C13_ListingOrderAndPage ==
  /\ last.op = "getViolations" =>
       /\ ~last.ret.threw
       /\ IsPage(last.ret.value,
                 { violations[i] : i \in { j \in DOMAIN violations :
                     Supplied(last.arg, "student_id")
                       => violations[j].student_id = last.arg.student_id } },
                 IF Supplied(last.arg, "limit") THEN last.arg.limit ELSE 1000,
                 IF Supplied(last.arg, "offset") THEN last.arg.offset ELSE 0)
  /\ (last.op = "getViolationsByStudent" /\ last.arg \in DOMAIN students) =>
       /\ ~last.ret.threw
       /\ IsPage(last.ret.value,
                 { violations[i] : i \in { j \in DOMAIN violations :
                     violations[j].student_id = last.arg } },
                 Cardinality(DOMAIN violations), 0)

\* the second page of one row holds the violation that happened first, though
\* it was created last and has the greater id
C13_Witness ==
  /\ last.op = "getViolations"
  /\ Supplied(last.arg, "limit") /\ last.arg.limit = 1
  /\ Supplied(last.arg, "offset") /\ last.arg.offset = 1
  /\ DOMAIN violations = {1, 2}
  /\ violations[1].violation_time > violations[2].violation_time
  /\ violations[1].created_at < violations[2].created_at
  /\ last.ret = Returned(<<violations[2]>>)

\* C14: deleteStudent on a student that at least one violation references fails
\* with 'Cannot delete student with existing violations' and changes nothing;
\* on an existing student that no violation references it removes the student.
C14_DeleteStudent ==
  last.op = "deleteStudent" =>
    IF \E v \in DOMAIN last.before.violations :
         last.before.violations[v].student_id = last.arg
    THEN /\ last.ret = Threw(<<"Cannot delete student with existing violations">>)
         /\ StoreUnchanged
    ELSE last.arg \in DOMAIN last.before.students =>
           /\ last.ret = Returned(Void)
           /\ DOMAIN students = DOMAIN last.before.students \ {last.arg}
           /\ \A i \in DOMAIN students : students[i] = last.before.students[i]
           /\ violations = last.before.violations
           /\ users = last.before.users

\* a delete of a student who still has a violation has just failed
C14_Witness ==
  /\ last.op = "deleteStudent"
  /\ last.ret.threw
  /\ last.arg \in DOMAIN students
  /\ \E v \in DOMAIN violations : violations[v].student_id = last.arg

\* C16: previewWhatsAppMessage and generateViolationMessage change nothing;
\* for an id that matches no stored violation both fail with 'Violation not
\* found'; for a stored violation the preview's recipient is the student's
\* parent_whatsapp, its studentName the student's name and its violationType
\* the violation's violation_type.
C16_PreviewReadOnly ==
  last.op \in {"previewWhatsAppMessage", "generateViolationMessage"} =>
    /\ StoreUnchanged
    /\ last.arg \notin DOMAIN violations =>
         last.ret = Threw(<<"Violation not found">>)
    /\ (last.op = "previewWhatsAppMessage" /\ last.arg \in DOMAIN violations) =>
         /\ ~last.ret.threw
         /\ last.ret.value.recipient =
              students[violations[last.arg].student_id].parent_whatsapp
         /\ last.ret.value.studentName =
              students[violations[last.arg].student_id].name
         /\ last.ret.value.violationType = violations[last.arg].violation_type

\* a preview of the second student's violation has just been returned
C16_Witness ==
  /\ Succeeded("previewWhatsAppMessage")
  /\ last.arg \in DOMAIN violations
  /\ violations[last.arg].student_id = 2
  /\ last.ret.value.recipient = students[2].parent_whatsapp

\* the message has a line that starts with the label
HasLine(message, label) == \E i \in 1..Len(message) : message[i][1] = label

\* the message has the line made of the label and the text
HasLineOf(message, label, text) ==
  \E i \in 1..Len(message) : message[i] = <<label, text>>

\* C17: the composed message has a 'Keterangan:' line exactly when the
\* violation's description is non-null and non-empty, and a 'Bukti foto:' line
\* exactly when its photo_url is non-null and non-empty; the name, class, NISN,
\* violation type and location lines are always there.
C17_OptionalLines ==
  (last.op = "generateViolationMessage" /\ ~last.ret.threw) =>
    LET violation == violations[last.arg]
        student == students[violation.student_id]
        message == last.ret.value
    IN /\ HasLine(message, "Keterangan: ") <=>
            (violation.description # Null /\ violation.description # Some(""))
       /\ HasLine(message, "Keterangan: ") =>
            HasLineOf(message, "Keterangan: ", violation.description[1])
       /\ HasLine(message, "Bukti foto: ") <=>
            (violation.photo_url # Null /\ violation.photo_url # Some(""))
       /\ HasLine(message, "Bukti foto: ") =>
            HasLineOf(message, "Bukti foto: ", violation.photo_url[1])
       /\ HasLineOf(message, "Nama: ", student.name)
       /\ HasLineOf(message, "Kelas: ", student.class)
       /\ HasLineOf(message, "NISN: ", student.nisn)
       /\ HasLineOf(message, "Jenis Pelanggaran: ", violation.violation_type)
       /\ HasLineOf(message, "Lokasi: ", violation.location)

\* a message has just been composed for a violation whose description is the
\* empty text
C17_Witness ==
  /\ Succeeded("generateViolationMessage")
  /\ violations[last.arg].description = Some("")
  /\ ~HasLine(last.ret.value, "Keterangan: ")

\* C15: in every reachable state, calls in flight included, every stored
\* violation's student_id names a stored student and its reported_by a stored
\* user: a createViolation or updateViolation whose look-up ran before a
\* deleteStudent removed the student, or a deleteStudent whose count ran
\* before the violation was written, is rejected by the store's references.
C15_ReferentialIntegrity ==
  \A v \in DOMAIN violations :
    /\ violations[v].student_id \in DOMAIN students
    /\ violations[v].reported_by \in DOMAIN users

\* an updateViolation that found its new student has just been rejected by the
\* store, the student having been deleted in between
C15_Witness ==
  /\ last.op = "updateViolation"
  /\ last.ret = ForeignKeyError("violations")
  /\ last.arg.student_id \notin DOMAIN students
  /\ last.arg.id \in DOMAIN violations

\* the decoded payload of an uploaded file_data
DecodedPayload(fileData) == BufferFromBase64(StripHeader(fileData))

\* C18: for every input that uploadPhoto accepts, getPhoto(result.fileName)
\* returns bytes equal to the decoded input payload; after
\* deletePhoto(result.fileName) has returned, getPhoto(result.fileName)
\* returns null.
C18_PhotoRoundTrip ==
  /\ Succeeded("uploadPhoto") =>
       getPhotoResult(last.ret.value.fileName)
         = Returned(Some(DecodedPayload(last.arg.file_data)))
  /\ (Succeeded("deletePhoto") /\ last.arg \in issued) =>
       getPhotoResult(last.arg) = Returned(Null)

\* C19: every successful uploadPhoto returns a fileName that no earlier
\* successful call has returned, even for identical inputs, so that no upload
\* overwrites a photo that is stored.
C19_DistinctFileNames ==
  Succeeded("uploadPhoto") =>
    /\ last.ret.value.fileName \notin last.before.issued
    /\ \A path \in DOMAIN last.before.files : files[path] = last.before.files[path]
    /\ DOMAIN files # DOMAIN last.before.files

\* the name has a character or a pair of characters that getPhoto refuses
HasTraversal(fileName) ==
  \/ \E i \in 1..Len(fileName) : fileName[i] \in {"/", "\\"}
  \/ \E i \in 1..(Len(fileName) - 1) : fileName[i] = "." /\ fileName[i + 1] = "."

\* where the upload directory keeps the file of a well-formed name
StoredPath(fileName) == << <<"u", "p", "l", "o", "a", "d", "s">>, <<"p", "h", "o", "t", "o", "s">>, fileName >>

\* C20: getPhoto never raises: for a fileName containing '..', '/' or '\' it
\* returns null; for a well-formed name with no stored file it returns null;
\* otherwise it returns the stored bytes; the blob store is unchanged in all
\* cases.
C20_GetPhotoNeverRaises ==
  last.op = "getPhoto" =>
    /\ ~last.ret.threw
    /\ StoreUnchanged
    /\ last.ret.value =
         IF HasTraversal(last.arg) THEN Null
         ELSE IF StoredPath(last.arg) \notin DOMAIN files THEN Null
         ELSE Some(files[StoredPath(last.arg)])

\* getPhoto has just returned null for a name with '..' that uploadPhoto
\* handed out, its file being stored
C20_Witness ==
  /\ last.op = "getPhoto"
  /\ last.arg \in issued
  /\ HasTraversal(last.arg)
  /\ Join(UPLOAD_DIR, last.arg) \in DOMAIN files
  /\ last.ret = Returned(Null)

\* C21: deletePhoto fails with 'Invalid filename', leaving the blob store
\* unchanged, for any fileName containing '..', '/' or '\'; for a well-formed
\* fileName with no stored file it completes without error and leaves the blob
\* store unchanged; for a well-formed stored fileName it removes exactly that
\* file.
C21_DeletePhoto ==
  last.op = "deletePhoto" =>
    IF HasTraversal(last.arg)
    THEN last.ret = Threw(<<"Invalid filename">>) /\ StoreUnchanged
    ELSE /\ last.ret = Returned(Void)
         /\ IF StoredPath(last.arg) \notin DOMAIN last.before.files
            THEN StoreUnchanged
            ELSE /\ DOMAIN files = DOMAIN last.before.files \ {StoredPath(last.arg)}
                 /\ \A path \in DOMAIN files : files[path] = last.before.files[path]

\* a stored photo has just been deleted while another one stays
C21_Witness ==
  /\ Succeeded("deletePhoto")
  /\ StoredPath(last.arg) \in DOMAIN last.before.files
  /\ StoredPath(last.arg) \notin DOMAIN files
  /\ files # <<>>

\* C22: whenever validatePhotoFormat reports the input invalid, uploadPhoto
\* fails with that validation error and writes no file: the stored photos are
\* as they were.
C22_UploadValidatesFirst ==
  (last.op = "uploadPhoto" /\ ~validatePhotoFormat(last.arg.file_data).valid) =>
    /\ last.ret = Threw(validatePhotoFormat(last.arg.file_data).error)
    /\ StoreUnchanged

\* an upload of a data URL of an unsupported format has just been refused,
\* with a photo stored
C22_Witness ==
  /\ last.op = "uploadPhoto"
  /\ last.ret.threw
  /\ last.ret.error[1] = "Unsupported image format: "
  /\ files # <<>>
  /\ files = last.before.files

\* the text has the form data:image/<fmt>;base64,<payload>, <fmt> being the
\* characters up to the first ";"
FormatEnd(text) ==
  IF \E i \in 1..Len(text) : text[i] = ";"
  THEN CHOOSE i \in 1..Len(text) : text[i] = ";" /\ \A j \in 1..(i - 1) : text[j] # ";"
  ELSE 0

IsImageDataUrl(text) ==
  /\ StartsWith(text, <<"d", "a", "t", "a", ":", "i", "m", "a", "g", "e", "/">>)
  /\ FormatEnd(text) > Len(<<"d", "a", "t", "a", ":", "i", "m", "a", "g", "e", "/">>) + 1
  /\ StartsWith(Drop(text, FormatEnd(text) - 1), <<";", "b", "a", "s", "e", "6", "4", ",">>)

DeclaredFormat(text) == SubSeq(text, Len(<<"d", "a", "t", "a", ":", "i", "m", "a", "g", "e", "/">>) + 1, FormatEnd(text) - 1)

PayloadOf(fileData) ==
  [fileData EXCEPT !.text = Drop(@, FormatEnd(@) + Len(<<";", "b", "a", "s", "e", "6", "4", ",">>) - 1)]

\* base64 characters, followed by at most two "=" at the very end
OnlyBase64(payload) ==
  \E pad \in 0..2 :
    /\ pad <= Len(payload.text)
    /\ pad > 0 => payload.bulk = 0
    /\ \A i \in 1..Len(payload.text) :
         IF i > Len(payload.text) - pad THEN payload.text[i] = "="
         ELSE payload.text[i] \in Range(Base64Alphabet)

Signatures(format) ==
  IF format \in { <<"j", "p", "e", "g">>, <<"j", "p", "g">> } THEN { <<255, 216, 255>> }
  ELSE IF format = <<"p", "n", "g">> THEN { <<137, 80, 78, 71, 13, 10, 26, 10>> }
  ELSE IF format = <<"g", "i", "f">>
  THEN { <<71, 73, 70, 56, 55, 97>>, <<71, 73, 70, 56, 57, 97>> }
  ELSE {}

StartsWithSignature(buffer, format) ==
  \E signature \in Signatures(format) :
    /\ buffer.length >= Len(signature)
    /\ \A i \in 1..Len(signature) : ByteAt(buffer, i - 1) = signature[i]

C24_Thumbnail ==
  last.op = "generatePhotoThumbnail" =>
    LET validation == validatePhotoFormat(last.arg)
        original == BufferFromBase64(PayloadOf(last.arg))
    IN IF ~validation.valid
       THEN last.ret = Threw(validation.error)
       ELSE IF original.length <= 200 * 1024
       THEN last.ret = Returned(last.arg)
       ELSE /\ ~last.ret.threw
            /\ IsImageDataUrl(last.ret.value.text)
            /\ DeclaredFormat(last.ret.value.text) =
                 IF validation.format = <<"j", "p", "g">> THEN <<"j", "p", "e", "g">> ELSE validation.format
            /\ OnlyBase64(PayloadOf(last.ret.value))
            /\ BufferFromBase64(PayloadOf(last.ret.value)).length < original.length
            /\ BufferFromBase64(PayloadOf(last.ret.value)).length <= 200 * 1024

\* a valid jpg image of more than 200 KiB has just been given a thumbnail
C24_Witness ==
  /\ last.op = "generatePhotoThumbnail"
  /\ validatePhotoFormat(last.arg) = Valid(<<"j", "p", "g">>)
  /\ BufferFromBase64(PayloadOf(last.arg)).length > 200 * 1024
  /\ ~last.ret.threw
  /\ last.ret.value # last.arg

\* C25: every User that login, createUser or getCurrentUser returns has the
\* empty string as its password, and login and getCurrentUser leave the
\* stored users, their password hashes included, as they were.
C25_PasswordNeverReturned ==
  /\ (last.op \in {"login", "createUser"} /\ ~last.ret.threw)
       => last.ret.value.password = ""
  /\ (last.op = "getCurrentUser" /\ ~last.ret.threw /\ last.ret.value # Null)
       => last.ret.value[1].password = ""
  /\ last.op \in {"login", "getCurrentUser"} => users = last.before.users
  /\ \A i \in DOMAIN users : users[i].password # ""

\* a login with the right password has just returned the user
C25_Witness ==
  /\ Succeeded("login")
  /\ \E i \in DOMAIN users :
       /\ users[i].username = last.arg.username
       /\ users[i].password = PasswordHash(last.arg.password, "c2FsdA")
       /\ last.ret.value.id = i

\* C26: sendWhatsAppMessage never raises; it returns success:true only when
\* the message got its identifier and the violation was marked sent at the
\* time of the call; every failure of the store while the violation is looked
\* up or marked is returned as {success:false, error}, and then the
\* violations, whatsapp_sent and whatsapp_sent_at included, are as they were.
C26_SendFailureIsAValue ==
  last.op = "sendWhatsAppMessage" =>
    /\ ~last.ret.threw
    /\ IF last.ret.value.success
       THEN /\ "messageId" \in DOMAIN last.ret.value
            /\ last.arg.violation_id \in DOMAIN violations
            /\ violations[last.arg.violation_id].whatsapp_sent
            /\ violations[last.arg.violation_id].whatsapp_sent_at = Some(last.at)
       ELSE /\ DOMAIN last.ret.value = {"success", "error"}
            /\ violations = last.before.violations

\* the store has just failed a send for a violation that exists and is unsent
C26_Witness ==
  /\ last.op = "sendWhatsAppMessage"
  /\ last.ret = Returned([success |-> FALSE,
                          error |-> "Failed to send WhatsApp message"])
  /\ last.arg.violation_id \in DOMAIN violations
  /\ ~violations[last.arg.violation_id].whatsapp_sent
  /\ violations[last.arg.violation_id].whatsapp_sent_at = Null

\* C27: in every reachable state, however createViolation, updateViolation,
\* markWhatsAppSent and sendWhatsAppMessage interleave, a stored violation
\* with whatsapp_sent = true has a non-null whatsapp_sent_at, also when a
\* call writes after another call changed the row it had read.
C27_SentImpliesSentAt ==
  \A i \in DOMAIN violations :
    violations[i].whatsapp_sent => violations[i].whatsapp_sent_at # Null

\* an updateViolation that had read the row as sent has just set
\* whatsapp_sent again on a row another call had meanwhile set to unsent: the
\* row is sent and keeps the timestamp of an earlier time
C27_Witness ==
  /\ Succeeded("updateViolation")
  /\ last.arg.whatsapp_sent
  /\ last.arg.id \in DOMAIN last.before.violations
  /\ ~last.before.violations[last.arg.id].whatsapp_sent
  /\ last.at = 1
  /\ last.arg.id \in DOMAIN violations
  /\ violations[last.arg.id].whatsapp_sent
  /\ violations[last.arg.id].whatsapp_sent_at = Some(0)

\* C30: under interleaving with a deleteViolation of the same id,
\* sendWhatsAppMessage returns success:true only if a stored violation with
\* that id was set to whatsapp_sent = true by the call.
C30_SuccessMeansMarked ==
  (last.op = "sendWhatsAppMessage" /\ ~last.ret.threw /\ last.ret.value.success)
    => /\ last.arg.violation_id \in DOMAIN violations
       /\ violations[last.arg.violation_id].whatsapp_sent

\* C28: once the whatsapp_sent_at of a violation is non-null, no later
\* operation resets it to null or moves it to an earlier time; in particular
\* updateViolation with whatsapp_sent = false leaves it as it was.
C28_SentAtNeverGoesBack ==
  /\ \A i \in DOMAIN last.before.violations \cap DOMAIN violations :
       last.before.violations[i].whatsapp_sent_at # Null
         => /\ violations[i].whatsapp_sent_at # Null
            /\ violations[i].whatsapp_sent_at[1]
                 >= last.before.violations[i].whatsapp_sent_at[1]
  /\ (Succeeded("updateViolation")
      /\ Supplied(last.arg, "whatsapp_sent") /\ ~last.arg.whatsapp_sent)
       => violations[last.arg.id].whatsapp_sent_at
            = last.before.violations[last.arg.id].whatsapp_sent_at

\* a violation sent at an earlier time has just been set to unsent
C28_Witness ==
  /\ Succeeded("updateViolation")
  /\ Supplied(last.arg, "whatsapp_sent") /\ ~last.arg.whatsapp_sent
  /\ last.before.violations[last.arg.id].whatsapp_sent
  /\ last.before.violations[last.arg.id].whatsapp_sent_at = Some(0)
  /\ last.at = 1
  /\ ~violations[last.arg.id].whatsapp_sent
  /\ violations[last.arg.id].whatsapp_sent_at = Some(0)

\* C29: markWhatsAppSent with a violation id that matches no stored violation
\* completes without error and leaves the store unchanged; it does not
\* report not-found.
C29_MarkMissingViolation ==
  (last.op = "markWhatsAppSent"
   /\ last.arg.violationId \notin DOMAIN last.before.violations)
    => /\ last.ret = Returned(Void)
       /\ StoreUnchanged

\* markWhatsAppSent has just been called, among stored violations, with an id
\* that none of them has
C29_Witness ==
  /\ last.op = "markWhatsAppSent"
  /\ last.arg.violationId \notin DOMAIN last.before.violations
  /\ DOMAIN violations # {}
  /\ ~last.ret.threw

====
